---- MODULE Spec2Model ----
(***************************************************************************)
(* Model of the chatlib IRC client (irc/irc.go, latest revision) and of    *)
(* the chatlib host loop that dispatches its events (chatlib.Handler).     *)
(*                                                                         *)
(* Paths of execution:                                                     *)
(*   peer        the remote server: sends lines, may close the connection  *)
(*   pollConn    the line framer goroutine started by API.Start            *)
(*   supervisor  the anonymous goroutine of API.Start (liveness + login)   *)
(*   receiveLoop the host goroutine calling API.ReceiveMessage             *)
(*   actionLoop  the host goroutine matching events against the actions    *)
(*   host        Handler.Start and its signal goroutine (API.Stop, cancel) *)
(* Lines are strings; the three regular expressions of irc.go and the      *)
(* patterns registered by irc.Init are evaluated character by character.   *)
(***************************************************************************)
EXTENDS Integers, Sequences, FiniteSets, TLC

\* ------------------------------------------------------------------ bounds
MaxLines == 3        \* lines the peer sends in one run
QueueCap == 1        \* a.msgBufSize, the capacity of a.rawMsgs
TimeoutPolls == 1    \* dialTimeoutSeconds / 0.1s: polls before the timeout

\* ----------------------------------------------------------- configuration
DefaultNick == "freyabot"
nick == "freyabot"
ConfiguredHost == "irc.test"
channels == <<"#a", "#b">>

ErrTimeout == "timeout"
ErrDial == "dial"
ErrInvalidConfig == "invalidConfig"
NoErr == "nil"

\* Lines the peer may send (a raw record as delivered by ReadBytes('\n')).
LnNotice == ":s NOTICE * :hi\r\n"
LnReady == ":s 005 n ok\r\n"
LnJoin == ":u PRIVMSG #c :!join #test\r\n"
LnPart == ":u PRIVMSG #c :!part\r\n"
LnLeave == ":u PRIVMSG n :!leave #x\r\n"
LnJoinPart == ":u PRIVMSG #c :!join #t !part\r\n"
LnLeavePing == ":u PRIVMSG #c :!leave #x !ping\r\n"
LnPing == "PING :tok\r\n"
LnPingEmpty == "PING :\r\n"
LnBang == ":u PRIVMSG n :!ping\r\n"
LnError == "ERROR :bye\r\n"
LnJunk == "junk\r\n"

PeerLines ==
  { LnNotice, LnReady, LnJoin, LnPart, LnLeave, LnJoinPart, LnLeavePing,
    LnPing, LnPingEmpty, LnBang, LnError, LnJunk }

\* The environments of a run: which lines the peer sends and how many, whether
\* it may reset the connection, whether the process is interrupted (SIGINT, which makes
\* Handler.Start call Stop), and whether the embedding program registers
\* actions of its own.  The client is built by irc.Init from a configuration
\* that names a server, unless the environment says otherwise: host is the
\* configured server, init is whether the client comes from irc.Init or from
\* a call of irc.New by the embedding program.
Env(pool, lines, pclose, sigint, app) ==
  [pool |-> pool, lines |-> lines, pclose |-> pclose, sigint |-> sigint,
   app |-> app, host |-> ConfiguredHost, init |-> TRUE, blocking |-> FALSE]

\* a fast peer in front of a slow consumer
EnvQueue ==
  Env({LnNotice, LnPing, LnPingEmpty, LnJunk}, MaxLines, FALSE, FALSE, FALSE)

\* registration, keep-alive and shutdown
EnvSession == Env({LnBang, LnReady, LnPing}, MaxLines - 1, FALSE, TRUE, TRUE)

\* the commands of irc.Init next to the actions of the embedding program
EnvDispatch ==
  Env({LnJoinPart, LnLeavePing, LnError}, MaxLines - 1, TRUE, FALSE, TRUE)

\* a peer that floods the client and may reset the connection; the client is
\* then interrupted
EnvShutdown == Env({LnNotice}, MaxLines, TRUE, TRUE, FALSE)

\* the channel commands of irc.Init on their own
EnvCommands == Env({LnJoin, LnPart, LnLeave}, MaxLines - 1, FALSE, FALSE, FALSE)

\* a configuration without a server handed to irc.Init
EnvNoServer ==
  [Env({LnNotice}, MaxLines - 2, FALSE, FALSE, FALSE) EXCEPT !.host = ""]

\* the embedding program calls irc.New without WithNetwork and registers
\* the API with chatlib.WithAPI
EnvBareNew ==
  [Env({LnNotice}, MaxLines - 2, FALSE, FALSE, TRUE)
     EXCEPT !.host = "", !.init = FALSE]

\* the embedding program registers a handler that never returns
EnvBlocked ==
  [Env({LnNotice}, MaxLines, FALSE, FALSE, FALSE) EXCEPT !.blocking = TRUE]

Envs ==
  { EnvQueue, EnvSession, EnvDispatch, EnvShutdown, EnvCommands, EnvNoServer,
    EnvBareNew, EnvBlocked }

\* ------------------------------------------------------------ string tools
Ch(s, i) == SubSeq(s, i, i)

From(s, i) == SubSeq(s, i, Len(s))

HasPrefixAt(s, i, p) == i + Len(p) - 1 <= Len(s) /\ SubSeq(s, i, i + Len(p) - 1) = p

\* \s of the regexp package: [\t\n\f\r ]
IsSpace(c) == c \in {" ", "\t", "\n", "\f", "\r"}

\* end (exclusive) of the longest run of \S starting at i
RECURSIVE NonSpaceEnd(_, _)
NonSpaceEnd(s, i) ==
  IF i > Len(s) \/ IsSpace(Ch(s, i)) THEN i ELSE NonSpaceEnd(s, i + 1)

RECURSIVE HasNewline(_, _)
HasNewline(s, i) ==
  IF i > Len(s) THEN FALSE
  ELSE IF Ch(s, i) = "\n" THEN TRUE ELSE HasNewline(s, i + 1)

\* leftmost index >= i at which p occurs in s, 0 when there is none
RECURSIVE IndexFrom(_, _, _)
IndexFrom(s, i, p) ==
  IF i + Len(p) - 1 > Len(s) THEN 0
  ELSE IF HasPrefixAt(s, i, p) THEN i ELSE IndexFrom(s, i + 1, p)

\* `(.*)\r\n$` applied to the rest of a line: the rest ends in CR LF and
\* holds no other line feed ('.' does not match a line feed)
TailOk(r) ==
  /\ Len(r) >= 2
  /\ SubSeq(r, Len(r) - 1, Len(r)) = "\r\n"
  /\ ~HasNewline(SubSeq(r, 1, Len(r) - 1), 1)

TailText(r) == SubSeq(r, 1, Len(r) - 2)

\* -------------------------------------------------------- protocol parser
NoMatch == <<>>

\* faulty variant of lnRe: the pattern without `:?`, the colon stays in the text
lnReKeepColon(line) ==
  IF ~HasPrefixAt(line, 1, ":") THEN NoMatch
  ELSE LET e1 == NonSpaceEnd(line, 2) IN
    IF e1 = 2 \/ ~HasPrefixAt(line, e1, " ") THEN NoMatch
    ELSE LET e2 == NonSpaceEnd(line, e1 + 1) IN
      IF e2 = e1 + 1 \/ ~HasPrefixAt(line, e2, " ") THEN NoMatch
      ELSE LET e3 == NonSpaceEnd(line, e2 + 1) IN
        IF e3 = e2 + 1 \/ ~HasPrefixAt(line, e3, " ") THEN NoMatch
        ELSE LET r == From(line, e3 + 1)
             IN IF ~TailOk(r) THEN NoMatch
                ELSE << SubSeq(line, 2, e1 - 1),
                        SubSeq(line, e1 + 1, e2 - 1),
                        SubSeq(line, e2 + 1, e3 - 1),
                        TailText(r) >>

\* linePattern: ^:(\S+) (\S+) (\S+) :?(.*)\r\n$ ; the submatches 1..4
lnRe(line) ==
  IF ~HasPrefixAt(line, 1, ":") THEN NoMatch
  ELSE LET e1 == NonSpaceEnd(line, 2) IN
    IF e1 = 2 \/ ~HasPrefixAt(line, e1, " ") THEN NoMatch
    ELSE LET e2 == NonSpaceEnd(line, e1 + 1) IN
      IF e2 = e1 + 1 \/ ~HasPrefixAt(line, e2, " ") THEN NoMatch
      ELSE LET e3 == NonSpaceEnd(line, e2 + 1) IN
        IF e3 = e2 + 1 \/ ~HasPrefixAt(line, e3, " ") THEN NoMatch
        ELSE LET r0 == From(line, e3 + 1)
                 r  == IF HasPrefixAt(r0, 1, ":") THEN From(r0, 2) ELSE r0
             IN IF ~TailOk(r) THEN NoMatch
                ELSE << SubSeq(line, 2, e1 - 1),
                        SubSeq(line, e1 + 1, e2 - 1),
                        SubSeq(line, e2 + 1, e3 - 1),
                        TailText(r) >>

\* pingPattern: ^PING :(.*)\r\n$
pingRe(line) ==
  IF HasPrefixAt(line, 1, "PING :") /\ TailOk(From(line, 7))
  THEN << TailText(From(line, 7)) >> ELSE NoMatch

\* errPattern: ^ERROR :(.*)\r\n$
errRe(line) ==
  IF HasPrefixAt(line, 1, "ERROR :") /\ TailOk(From(line, 8))
  THEN << TailText(From(line, 8)) >> ELSE NoMatch

\* faulty variant of Message: the raw field holds the line without its CR LF
MessageTrimmedRaw(text, command, sender, receiver, raw) ==
  [Text |-> text, Command |-> command, Sender |-> sender,
   Receiver |-> receiver, Raw |-> SubSeq(raw, 1, Len(raw) - 2)]

\* chatlib.Message, as ReceiveMessage fills it
Message(text, command, sender, receiver, raw) ==
  [Text |-> text, Command |-> command, Sender |-> sender,
   Receiver |-> receiver, Raw |-> raw]

\* The outcome of the classification made by ReceiveMessage for one line:
\* kind, the message returned (<<>> is nil) and the error returned (for a
\* PING line the error is that of a.pong, known when the answer is written).
Classify(line) ==
  IF lnRe(line) # NoMatch THEN
    LET p == lnRe(line) IN
    [kind |-> "line", msg |-> <<Message(p[4], p[2], p[1], p[3], line)>>,
     err |-> NoErr]
  ELSE IF pingRe(line) # NoMatch THEN
    [kind |-> "ping", msg |-> <<Message(pingRe(line)[1], "PING", "", "", line)>>,
     err |-> NoErr]
  ELSE IF errRe(line) # NoMatch THEN
    [kind |-> "error", msg |-> <<>>,
     err |-> "irc: error: " \o errRe(line)[1]]
  ELSE
    [kind |-> "malformed", msg |-> <<>>,
     err |-> "irc: line does not match pattern: " \o line]

\* faulty variant of Serialize: the receiver and the text are written even
\* when they are empty
SerializeAllParts(m) ==
  m.Command \o " " \o m.Receiver \o " :" \o m.Text \o "\n"

\* SendMessage: the bytes handed to conn.Write
Serialize(m) ==
  m.Command
    \o (IF m.Receiver # "" THEN " " \o m.Receiver ELSE "")
    \o (IF m.Text # "" THEN " :" \o m.Text ELSE "")
    \o "\n"

Outbound(command, text) == Message(text, command, "", "", "")


\* ------------------------------------------------- command dispatcher data
\* text of s up to (not including) its first line feed: what (.*) captures
RECURSIVE UpToNewline(_, _)
UpToNewline(s, i) ==
  IF i > Len(s) \/ Ch(s, i) = "\n" THEN SubSeq(s, 1, i - 1)
  ELSE UpToNewline(s, i + 1)

\* leftmost start of `!(part|leave)`, 0 when there is none
LeaveIndex(text) ==
  LET p == IndexFrom(text, 1, "!part")
      l == IndexFrom(text, 1, "!leave")
  IN IF p = 0 THEN l ELSE IF l = 0 THEN p ELSE IF p < l THEN p ELSE l

\* regexp.MatchString for the patterns that are registered (unanchored)
MatchString(re, text) ==
  CASE re = "" -> TRUE
    [] re = "!join (.*)" -> IndexFrom(text, 1, "!join ") # 0
    [] re = "!(part|leave)( (.*))?" -> LeaveIndex(text) # 0
    [] re = "!ping" -> IndexFrom(text, 1, "!ping") # 0
    [] OTHER -> FALSE

\* faulty variant of JoinArg: FindStringSubmatch(text)[0], the whole match
JoinArgWholeMatch(text) ==
  UpToNewline(From(text, IndexFrom(text, 1, "!join ")), 1)

\* FindStringSubmatch(text)[1] of `!join (.*)`
JoinArg(text) ==
  UpToNewline(From(text, IndexFrom(text, 1, "!join ") + 6), 1)

\* FindStringSubmatch(text)[3] of `!(part|leave)( (.*))?`
LeaveArg(text) ==
  LET i == LeaveIndex(text)
      j == IF HasPrefixAt(text, i, "!part") THEN i + 5 ELSE i + 6
  IN IF HasPrefixAt(text, j, " ") THEN UpToNewline(From(text, j + 1), 1) ELSE ""

RoleAdmin == "admin"

Action(command, re, fn, roles) ==
  [Command |-> command, re |-> re, fn |-> fn, roles |-> roles]

\* the options of irc.Init, in the order CombineOptions applies them
IrcActions ==
  << Action("005", "", "actionOnReady", <<>>),
     Action("PRIVMSG", "!join (.*)", "actionJoinChannel", <<RoleAdmin>>),
     Action("PRIVMSG", "!(part|leave)( (.*))?", "actionLeaveChannel", <<RoleAdmin>>),
     Action("PRIVMSG", "!ping", "actionPing", <<>>) >>

\* what the embedding program registers after irc.Init, when it does: a hook
\* with an empty command filter, and twice the same action on `!ping`
AppActions ==
  << Action("", "", "appHook", <<>>),
     Action("PRIVMSG", "!ping", "appHook", <<>>),
     Action("PRIVMSG", "!ping", "appHook", <<>>) >>

\* a handler of the embedding program that waits for something that never
\* comes, registered on NOTICE
BlockingActions == << Action("NOTICE", "", "appBlock", <<>>) >>

\* RegisterAction: the action list after one more registration
RegisterAction(acts, a) == Append(acts, a)

RECURSIVE ApplyOptions(_, _)
ApplyOptions(acts, opts) ==
  IF opts = <<>> THEN acts
  ELSE ApplyOptions(RegisterAction(acts, Head(opts)), Tail(opts))

\* ReceiveMessage and MatchString, tabulated over the lines the peer may
\* send: Parsed[line] is the classification of a line, PatternFound[re, text]
\* is whether a registered pattern is found in the text of an event
Parsed == [l \in PeerLines |-> Classify(l)]

Patterns == { IrcActions[i].re : i \in DOMAIN IrcActions }
              \cup { AppActions[i].re : i \in DOMAIN AppActions }
              \cup { BlockingActions[i].re : i \in DOMAIN BlockingActions }

Texts == { Parsed[l].msg[1].Text : l \in { x \in PeerLines : Parsed[x].msg # <<>> } }

PatternFound == [re \in Patterns, text \in Texts |-> MatchString(re, text)]

\* the submatches the handlers of irc.Init extract, tabulated over the texts
\* in which their pattern is found
JoinArgOf ==
  [t \in { x \in Texts : PatternFound["!join (.*)", x] } |-> JoinArg(t)]

LeaveArgOf ==
  [t \in { x \in Texts : PatternFound["!(part|leave)( (.*))?", x] } |->
     LeaveArg(t)]

\* faulty variant of Matches: the command filter is not compared
MatchesPatternOnly(a, m) == PatternFound[a.re, m.Text]

\* the condition of actionLoop for one action and one message
Matches(a, m) == a.Command = m.Command /\ PatternFound[a.re, m.Text]

\* first index >= i of an action of acts that matches m, 0 when none is left
RECURSIVE NextMatch(_, _, _)
NextMatch(acts, i, m) ==
  IF i > Len(acts) THEN 0
  ELSE IF Matches(acts[i], m) THEN i ELSE NextMatch(acts, i + 1, m)


\* ------------------------------------------------------------------- state
VARIABLES
  env,          \* the environment of this run, fixed from the start
  sent,         \* peer: the lines written by the peer so far, in order
  peerClosed,   \* peer: the peer has reset the connection
  nread,        \* a.reader: how many lines of sent ReadBytes has returned
  readFailed,   \* history: a call of readMessage has returned an error
  conn,         \* a.conn: "none" (nil), "open", "closed" (after Close)
  open,         \* a.open
  ready,        \* a.ready
  lastMsgTime,  \* a.lastMsgTime is non-zero
  rawMsgs,      \* a.rawMsgs, the buffered channel of raw lines
  framerPc,     \* pollConn: "off", "read", "enq", "done"
  supPc,        \* goroutine of Start: "off", "poll", "nick", "user", "exit"
  elapsed,      \* goroutine of Start: 0.1s sleeps since start
  slept,        \* goroutine of Start: the login delay has been slept
  err,          \* Start: the variable err
  e,            \* Start: the value returned by a.login
  wgDone,       \* Start: wg.Done() has been called
  startRet,     \* what API.Start returned, "none" while it has not returned
  stopRet,      \* what API.Stop returned, "none" while it has not returned
  handlerRet,   \* what Handler.Start returned, "none" while it has not
  hostPc,       \* Handler.Start and its signal goroutine
  cancelled,    \* the context of Handler.Start has been cancelled
  actions,      \* h.actions
  recvPc,       \* receiveLoop: "off", "recv", "pong", "handoff"
  rmsg,         \* receiveLoop: msg returned by ReceiveMessage (<<>> is nil)
  rerr,         \* receiveLoop: err returned by ReceiveMessage
  received,     \* history: the raw lines dequeued by ReceiveMessage, in order
  actPc,        \* actionLoop: "off", "select", "iter", "join", "blocked",
                \* "done"
  cur,          \* actionLoop: msg
  ai,           \* actionLoop: index of the action being evaluated
  hj,           \* joinChannels: index of the channel being joined
  dispatched,   \* history: the messages actionLoop took from h.msg, in order
  calls,        \* history: handler invocations [ev, act, res], in order
  otherPc,      \* a second caller of ReceiveMessage: "off", "recv", "pong"
  taken,        \* history: the lines ReceiveMessage took for the second caller
  wlog,         \* history: the calls of conn.Write [line, res], in order
  inWrite       \* the paths that are inside a call of a.conn.Write

\* a.networkHost: WithNetwork stores the configured host as it is
networkHost == env.host

vars == << env, sent, peerClosed, nread, readFailed, conn, open, ready, lastMsgTime, rawMsgs,
           framerPc, supPc, elapsed, slept, err, e, wgDone, startRet, stopRet,
           handlerRet, hostPc,
           cancelled, actions, recvPc, rmsg, rerr, received, actPc, cur, ai,
           hj, dispatched, calls, otherPc, taken, wlog, inWrite >>

peerVars == << env, sent, peerClosed >>
framerVars == << nread, readFailed, rawMsgs, framerPc >>
supVars == << supPc, elapsed, slept, err, e, wgDone >>
hostVars == << startRet, stopRet, handlerRet, hostPc, cancelled, actions >>
recvVars == << recvPc, rmsg, rerr, received, otherPc, taken >>
actVars == << actPc, cur, ai, hj, dispatched, calls >>

Init ==
  /\ env \in Envs
  /\ sent = <<>> /\ peerClosed = FALSE /\ nread = 0 /\ readFailed = FALSE
  /\ conn = "none" /\ open = TRUE /\ ready = FALSE /\ lastMsgTime = FALSE
  /\ rawMsgs = <<>> /\ framerPc = "off"
  /\ supPc = "off" /\ elapsed = 0 /\ slept = FALSE
  /\ err = NoErr /\ e = NoErr /\ wgDone = FALSE /\ startRet = "none"
  /\ stopRet = "none" /\ handlerRet = "none"
  /\ hostPc = "new" /\ cancelled = FALSE /\ actions = <<>>
  /\ recvPc = "off" /\ rmsg = <<>> /\ rerr = NoErr /\ received = <<>>
  /\ actPc = "off" /\ cur = <<>> /\ ai = 0 /\ hj = 0
  /\ dispatched = <<>> /\ calls = <<>> /\ wlog = <<>> /\ inWrite = {}
  /\ otherPc = "off" /\ taken = <<>>

\* -------------------------------------------------------------- transport
\* What a.conn.Write returns: a connection closed by Close refuses the write
\* ("use of closed network connection"), a connection reset by the peer fails
\* it ("broken pipe").
WriteResult ==
  IF conn = "closed" THEN "closed"
  ELSE IF peerClosed THEN "broken"
  ELSE "ok"

WriteOutcomes == {WriteResult}

\* the call of a.conn.Write made by path p returns
Write(p, line, res) ==
  /\ wlog' = Append(wlog, [line |-> line, res |-> res])
  /\ inWrite' = inWrite \ {p}

WriteErr(res) == IF res = "ok" THEN NoErr ELSE res

\* ------------------------------------------------------------------- peer
PeerSend ==
  /\ conn = "open" /\ ~peerClosed
  /\ Len(sent) < env.lines
  /\ \E l \in env.pool : sent' = Append(sent, l)
  /\ UNCHANGED << env, peerClosed, nread, readFailed, conn, open, ready, lastMsgTime, rawMsgs,
                  framerPc, supVars, hostVars, recvVars, actVars, wlog, inWrite >>

PeerClose ==
  /\ env.pclose /\ conn = "open" /\ ~peerClosed
  /\ peerClosed' = TRUE
  /\ UNCHANGED << env, sent, nread, readFailed, conn, open, ready, lastMsgTime, rawMsgs,
                  framerPc, supVars, hostVars, recvVars, actVars, wlog, inWrite >>

\* ----------------------------------------------------- host: construction
\* irc.New: the options are applied and the API is returned; no field of the
\* configuration is examined
New(host) == [api |-> TRUE, err |-> NoErr]

\* irc.Init: irc.New, then the test of a.networkHost; the option returned
\* registers the API and the actions of IrcActions
IrcInit(host) ==
  IF New(host).err # NoErr THEN [api |-> FALSE, err |-> ErrInvalidConfig]
  ELSE IF host = "" THEN [api |-> FALSE, err |-> ErrInvalidConfig]
  ELSE [api |-> TRUE, err |-> NoErr]

\* how many actions the option of the client has registered
Registered == IF env.init THEN Len(IrcActions) ELSE 0

\* the construction of the client and of the handler: chatlib.New applying
\* the option returned by irc.Init, or chatlib.WithAPI on the result of
\* irc.New (the handlers of IrcActions are not exported, only irc.Init
\* registers them)
HostNew ==
  /\ hostPc = "new"
  /\ LET r == IF env.init THEN IrcInit(env.host) ELSE New(env.host) IN
     IF r.api
     THEN /\ actions' = IF env.init THEN ApplyOptions(actions, IrcActions)
                        ELSE actions
          /\ hostPc' = "inited"
     ELSE hostPc' = "invalid" /\ UNCHANGED actions
  /\ UNCHANGED << peerVars, framerVars, supVars, recvVars, actVars, conn, open,
                  ready, lastMsgTime, startRet, stopRet, handlerRet, cancelled, wlog, inWrite >>

\* the options the embedding program passes to chatlib.New after that of
\* the client
AppOptions ==
  (IF env.app THEN AppActions ELSE <<>>)
    \o (IF env.blocking THEN BlockingActions ELSE <<>>)

\* chatlib.New applying the options of the embedding program
HostRegister ==
  /\ AppOptions # <<>> /\ hostPc = "inited" /\ Len(actions) = Registered
  /\ actions' = ApplyOptions(actions, AppOptions)
  /\ UNCHANGED << peerVars, framerVars, supVars, recvVars, actVars, conn, open,
                  ready, lastMsgTime, startRet, stopRet, handlerRet, hostPc, cancelled, wlog, inWrite >>

\* Handler.Start up to the call of h.api.Start
HostStart ==
  /\ hostPc = "inited"
  /\ AppOptions # <<>> => Len(actions) > Registered
  /\ actPc' = "select" /\ recvPc' = "recv" /\ hostPc' = "connect"
  /\ UNCHANGED << peerVars, framerVars, supVars, conn, open, ready,
                  lastMsgTime, startRet, stopRet, handlerRet, cancelled, actions, rmsg, rerr,
                  received, cur, ai, hj, dispatched, calls, wlog, inWrite,
                  otherPc, taken >>

\* ------------------------------------------------------------ API.Start
\* faulty variant of Connect: pollConn is started before the dial is known to
\* have succeeded
ConnectStartsFramerFirst ==
  /\ hostPc = "connect"
  /\ framerPc' = "read"
  /\ \E ok \in BOOLEAN :
       IF ok
       THEN /\ conn' = "open" /\ supPc' = "poll" /\ hostPc' = "wait"
            /\ UNCHANGED << startRet, handlerRet, cancelled >>
       ELSE /\ startRet' = ErrDial /\ handlerRet' = ErrDial
            /\ cancelled' = TRUE /\ hostPc' = "failed"
            /\ UNCHANGED << conn, supPc >>
  /\ UNCHANGED << peerVars, nread, readFailed, rawMsgs, open, ready, lastMsgTime, elapsed,
                  slept, err, e, wgDone, stopRet, actions, recvVars, actVars, wlog,
                  inWrite >>

\* a.connect and, when it succeeds, the two go statements of Start; when the
\* dial fails Start returns its error at once, and Handler.Start cancels its
\* context and returns the error it got
Connect ==
  /\ hostPc = "connect"
  /\ \E ok \in BOOLEAN :
       IF ok
       THEN /\ conn' = "open" /\ framerPc' = "read" /\ supPc' = "poll"
            /\ hostPc' = "wait"
            /\ UNCHANGED << startRet, handlerRet, cancelled >>
       ELSE /\ startRet' = ErrDial /\ handlerRet' = ErrDial
            /\ cancelled' = TRUE /\ hostPc' = "failed"
            /\ UNCHANGED << conn, framerPc, supPc >>
  /\ UNCHANGED << peerVars, nread, readFailed, rawMsgs, open, ready, lastMsgTime, elapsed,
                  slept, err, e, wgDone, stopRet, actions, recvVars, actVars, wlog,
                  inWrite >>

\* faulty variant of Poll: the timeout branch does not assign err
PollNoTimeoutErr ==
  /\ supPc = "poll"
  /\ \E seen \in (IF lastMsgTime THEN {TRUE, FALSE} ELSE {FALSE}) :
       IF seen
       THEN /\ slept' = TRUE /\ supPc' = "nick" /\ elapsed' = 0
            /\ UNCHANGED << err, wgDone >>
       ELSE IF elapsed > TimeoutPolls
       THEN /\ wgDone' = TRUE /\ supPc' = "exit"
            /\ UNCHANGED << elapsed, slept, err >>
       ELSE /\ elapsed' = elapsed + 1
            /\ UNCHANGED << supPc, err, wgDone, slept >>
  /\ UNCHANGED << peerVars, framerVars, hostVars, recvVars, actVars, conn,
                  open, ready, lastMsgTime, e, wlog, inWrite >>

\* faulty variant of Poll: the timeout branch does not return, the goroutine goes on
\* to the login
PollFallThrough ==
  /\ supPc = "poll"
  /\ \E seen \in (IF lastMsgTime THEN {TRUE, FALSE} ELSE {FALSE}) :
       IF seen
       THEN /\ slept' = TRUE /\ supPc' = "nick" /\ elapsed' = 0
            /\ UNCHANGED << err, wgDone >>
       ELSE IF elapsed > TimeoutPolls
       THEN /\ err' = ErrTimeout /\ wgDone' = TRUE /\ supPc' = "nick"
            /\ UNCHANGED << elapsed, slept >>
       ELSE /\ elapsed' = elapsed + 1
            /\ UNCHANGED << supPc, err, wgDone, slept >>
  /\ UNCHANGED << peerVars, framerVars, hostVars, recvVars, actVars, conn,
                  open, ready, lastMsgTime, e, wlog, inWrite >>

\* faulty variant of Poll: the timeout branch closes the connection
PollTimeoutCloses ==
  /\ supPc = "poll"
  /\ \E seen \in (IF lastMsgTime THEN {TRUE, FALSE} ELSE {FALSE}) :
       IF seen
       THEN /\ slept' = TRUE /\ supPc' = "nick" /\ elapsed' = 0
            /\ UNCHANGED << err, wgDone, conn, open >>
       ELSE IF elapsed > TimeoutPolls
       THEN /\ err' = ErrTimeout /\ wgDone' = TRUE /\ supPc' = "exit"
            /\ conn' = "closed" /\ open' = FALSE
            /\ UNCHANGED << elapsed, slept >>
       ELSE /\ elapsed' = elapsed + 1
            /\ UNCHANGED << supPc, err, wgDone, slept, conn, open >>
  /\ UNCHANGED << peerVars, framerVars, hostVars, recvVars, actVars,
                  ready, lastMsgTime, e, wlog, inWrite >>

\* one iteration of the liveness loop; the read of a.lastMsgTime races with
\* the write in ReceiveMessage, so a set value may still be seen as zero.
\* When the loop breaks, the goroutine sleeps loginDelaySeconds
\* (time.Sleep) before it calls a.login; `start` is not used after the loop,
\* so the count of polls is dropped there.
Poll ==
  /\ supPc = "poll"
  /\ \E seen \in (IF lastMsgTime THEN {TRUE, FALSE} ELSE {FALSE}) :
       IF seen
       THEN /\ slept' = TRUE /\ supPc' = "nick" /\ elapsed' = 0
            /\ UNCHANGED << err, wgDone >>
       ELSE IF elapsed > TimeoutPolls
       THEN /\ err' = ErrTimeout /\ wgDone' = TRUE /\ supPc' = "exit"
            /\ UNCHANGED << elapsed, slept >>
       ELSE /\ elapsed' = elapsed + 1
            /\ UNCHANGED << supPc, err, wgDone, slept >>
  /\ UNCHANGED << peerVars, framerVars, hostVars, recvVars, actVars, conn,
                  open, ready, lastMsgTime, e, wlog, inWrite >>

\* faulty variant of AfterLogin: the condition tests e, so that a failed login
\* takes the branch that returns without wg.Done()
AfterLoginNoDone(v) ==
  /\ e' = v
  /\ IF v # NoErr
     THEN err' = v /\ UNCHANGED wgDone
     ELSE wgDone' = TRUE /\ UNCHANGED err
  /\ supPc' = "exit"

\* the statements of Start that follow the return of a.login with value v
AfterLogin(v) ==
  /\ e' = v
  /\ IF err # NoErr
     THEN err' = v /\ UNCHANGED wgDone
     ELSE wgDone' = TRUE /\ UNCHANGED err
  /\ supPc' = "exit"

RealName == IF nick # DefaultNick THEN "FreyaBot (" \o nick \o ")" ELSE "FreyaBot"

\* faulty variant of LoginNick: login goes on to the USER message whatever the
\* NICK write returned
LoginNickIgnoresError ==
  /\ supPc = "nick"
  /\ \E res \in WriteOutcomes :
       Write("sup", Serialize(Outbound("NICK" \o " " \o nick, "")), res)
  /\ supPc' = "user"
  /\ UNCHANGED << peerVars, framerVars, hostVars, recvVars, actVars, conn,
                  open, ready, lastMsgTime, elapsed, slept, e, err, wgDone >>

\* a.login: the NICK message
LoginNick ==
  /\ supPc = "nick"
  /\ \E res \in WriteOutcomes :
       /\ Write("sup", Serialize(Outbound("NICK" \o " " \o nick, "")), res)
       /\ IF res = "ok"
          THEN supPc' = "user" /\ UNCHANGED << e, err, wgDone >>
          ELSE AfterLogin(WriteErr(res))
  /\ UNCHANGED << peerVars, framerVars, hostVars, recvVars, actVars, conn,
                  open, ready, lastMsgTime, elapsed, slept >>

\* a.login: the USER message
LoginUser ==
  /\ supPc = "user"
  /\ \E res \in WriteOutcomes :
       /\ Write("sup", Serialize(Outbound("USER " \o nick \o " 0 *", RealName)), res)
       /\ AfterLogin(WriteErr(res))
  /\ UNCHANGED << peerVars, framerVars, hostVars, recvVars, actVars, conn,
                  open, ready, lastMsgTime, elapsed, slept >>

\* wg.Wait() returns, Start returns err; on an error Handler.Start cancels
\* and returns it
StartReturn ==
  /\ hostPc = "wait" /\ wgDone
  /\ startRet' = err
  /\ IF err # NoErr
     THEN cancelled' = TRUE /\ hostPc' = "failed" /\ handlerRet' = err
     ELSE hostPc' = "running" /\ UNCHANGED << cancelled, handlerRet >>
  /\ UNCHANGED << peerVars, framerVars, supVars, recvVars, actVars, conn, open,
                  ready, lastMsgTime, stopRet, actions, wlog, inWrite >>


\* ------------------------------------------------------------- API.Stop
QuitLine == Serialize(Outbound("QUIT", "I must go! My people need me."))

\* faulty variant of StopQuit: the connection is closed before the farewell message
\* is written
StopQuitAfterClose ==
  /\ env.sigint /\ hostPc = "running"
  /\ open' = FALSE /\ conn' = "closed"
  /\ Write("host", QuitLine, "closed")
  /\ hostPc' = "close"
  /\ UNCHANGED << peerVars, framerVars, supVars, recvVars, actVars,
                  ready, lastMsgTime, startRet, stopRet, handlerRet, cancelled, actions >>

\* faulty variant of StopQuit: a farewell that fails makes Stop return that error
\* without closing the connection
StopQuitReturnsWriteError ==
  /\ env.sigint /\ hostPc = "running"
  /\ open' = FALSE
  /\ \E res \in WriteOutcomes :
       /\ Write("host", QuitLine, res)
       /\ IF res = "ok" THEN hostPc' = "close" /\ UNCHANGED stopRet
          ELSE hostPc' = "stopped" /\ stopRet' = res
  /\ UNCHANGED << peerVars, framerVars, supVars, recvVars, actVars, conn,
                  ready, lastMsgTime, startRet, handlerRet, cancelled, actions >>

\* the signal goroutine of Handler.Start calls Stop: a.open = false, then
\* the farewell message, whose error is dropped
StopQuit ==
  /\ env.sigint /\ hostPc = "running"
  /\ open' = FALSE
  /\ \E res \in WriteOutcomes : Write("host", QuitLine, res)
  /\ hostPc' = "close"
  /\ UNCHANGED << peerVars, framerVars, supVars, recvVars, actVars, conn,
                  ready, lastMsgTime, startRet, stopRet, handlerRet, cancelled, actions >>

\* faulty variant of StopClose: Stop returns without closing the connection
StopCloseLeavesOpen ==
  /\ hostPc = "close"
  /\ hostPc' = "stopped" /\ stopRet' = NoErr
  /\ UNCHANGED << peerVars, framerVars, supVars, recvVars, actVars, conn, open,
                  ready, lastMsgTime, startRet, handlerRet, cancelled, actions,
                  wlog, inWrite >>

\* What a.conn.Close returns: nil, or an error when the peer has reset the
\* connection and the closing handshake of an encrypted transport cannot be
\* sent.
ErrClose == "close"

CloseOutcomes == IF peerClosed THEN {NoErr, ErrClose} ELSE {NoErr}

\* Stop: a.disconnect(); Stop returns what Close returned
StopClose ==
  /\ hostPc = "close"
  /\ conn' = "closed" /\ hostPc' = "stopped"
  /\ \E res \in CloseOutcomes : stopRet' = res
  /\ UNCHANGED << peerVars, framerVars, supVars, recvVars, actVars, open,
                  ready, lastMsgTime, startRet, handlerRet, cancelled, actions,
                  wlog, inWrite >>

\* the signal goroutine: cancel() after Stop (whose error is only logged);
\* Handler.Start leaves `<-c.Done()` and returns nil
HostCancel ==
  /\ hostPc = "stopped"
  /\ cancelled' = TRUE /\ hostPc' = "done" /\ handlerRet' = NoErr
  /\ UNCHANGED << peerVars, framerVars, supVars, recvVars, actVars, conn, open,
                  ready, lastMsgTime, startRet, stopRet, actions, wlog, inWrite >>

\* ------------------------------------------------------------- pollConn
Unread == SubSeq(sent, nread + 1, Len(sent))

\* `for a.open`, evaluated when an iteration of pollConn ends: the read of
\* a.open races with the write in Stop, so a cleared flag may still be seen
\* as set
LoopCheck ==
  \E seen \in (IF open THEN {TRUE} ELSE {TRUE, FALSE}) :
    framerPc' = IF seen THEN "read" ELSE "done"

\* faulty variant of FramerRead: the framer reads a line only when a caller of
\* ReceiveMessage is waiting for one
FramerReadOnDemand ==
  /\ framerPc = "read" /\ ~readFailed /\ recvPc = "recv"
  /\ nread < Len(sent)
  /\ nread' = nread + 1 /\ framerPc' = "enq"
  /\ UNCHANGED << peerVars, readFailed, rawMsgs, supVars, hostVars, recvVars, actVars,
                  conn, open, ready, lastMsgTime, wlog, inWrite >>

\* readMessage: a.reader.ReadBytes returns a line
FramerRead ==
  /\ framerPc = "read" /\ ~readFailed
  /\ nread < Len(sent)
  /\ nread' = nread + 1 /\ framerPc' = "enq"
  /\ UNCHANGED << peerVars, readFailed, rawMsgs, supVars, hostVars, recvVars, actVars,
                  conn, open, ready, lastMsgTime, wlog, inWrite >>

\* readMessage: ReadBytes fails (closed connection, or end of stream after
\* the buffered lines); pollConn logs the error and loops
FramerReadErr ==
  /\ framerPc = "read"
  /\ conn = "closed" \/ (peerClosed /\ nread = Len(sent))
  /\ readFailed' = TRUE
  /\ LoopCheck
  /\ UNCHANGED << peerVars, nread, rawMsgs, supVars, hostVars, recvVars,
                  actVars, conn, open, ready, lastMsgTime, wlog, inWrite >>

\* faulty variant of FramerEnqueue: a non-blocking send that discards the line when
\* the channel is full
FramerEnqueueDrop ==
  /\ framerPc = "enq"
  /\ rawMsgs' = IF Len(rawMsgs) < QueueCap THEN Append(rawMsgs, sent[nread])
                ELSE rawMsgs
  /\ LoopCheck
  /\ UNCHANGED << peerVars, nread, readFailed, supVars, hostVars, recvVars, actVars, conn,
                  open, ready, lastMsgTime, wlog, inWrite >>

\* faulty variant of FramerEnqueue: a send that never blocks; when the channel is
\* full the oldest queued line makes room for the new one
FramerEnqueueOverwrite ==
  /\ framerPc = "enq"
  /\ rawMsgs' = IF Len(rawMsgs) < QueueCap THEN Append(rawMsgs, sent[nread])
                ELSE Append(Tail(rawMsgs), sent[nread])
  /\ LoopCheck
  /\ UNCHANGED << peerVars, nread, readFailed, supVars, hostVars, recvVars, actVars, conn,
                  open, ready, lastMsgTime, wlog, inWrite >>

\* faulty variant of FramerEnqueue: a.rawMsgs without a capacity, a send that
\* always goes through
FramerEnqueueUnbounded ==
  /\ framerPc = "enq"
  /\ rawMsgs' = Append(rawMsgs, sent[nread])
  /\ LoopCheck
  /\ UNCHANGED << peerVars, nread, readFailed, supVars, hostVars, recvVars, actVars, conn,
                  open, ready, lastMsgTime, wlog, inWrite >>

\* readMessage: a.rawMsgs <- bts, which blocks while the channel is full
FramerEnqueue ==
  /\ framerPc = "enq"
  /\ Len(rawMsgs) < QueueCap
  /\ rawMsgs' = Append(rawMsgs, sent[nread])
  /\ LoopCheck
  /\ UNCHANGED << peerVars, nread, readFailed, supVars, hostVars, recvVars, actVars, conn,
                  open, ready, lastMsgTime, wlog, inWrite >>

\* faulty variant of RecvDequeue: every line taken from the queue counts as
\* traffic
RecvDequeueAnyLine ==
  /\ recvPc = "recv"
  /\ rawMsgs # <<>>
  /\ LET line == Head(rawMsgs)
         c == Parsed[line]
     IN /\ rawMsgs' = Tail(rawMsgs)
        /\ received' = Append(received, line)
        /\ rmsg' = c.msg
        /\ CASE c.kind = "line" ->
                  lastMsgTime' = TRUE /\ rerr' = c.err /\ recvPc' = "handoff"
             [] c.kind = "ping" ->
                  lastMsgTime' = TRUE /\ UNCHANGED rerr /\ recvPc' = "pong"
             [] OTHER ->
                  lastMsgTime' = TRUE /\ rerr' = c.err /\ recvPc' = "handoff"
  /\ UNCHANGED << peerVars, nread, readFailed, framerPc, supVars, hostVars, actVars, conn,
                  open, ready, wlog, inWrite,
                  otherPc, taken >>

\* ------------------------------------------ receiveLoop / ReceiveMessage
\* ReceiveMessage: bts := <-a.rawMsgs and the classification of the line
RecvDequeue ==
  /\ recvPc = "recv"
  /\ rawMsgs # <<>>
  /\ LET line == Head(rawMsgs)
         c == Parsed[line]
     IN /\ rawMsgs' = Tail(rawMsgs)
        /\ received' = Append(received, line)
        /\ rmsg' = c.msg
        /\ CASE c.kind = "line" ->
                  lastMsgTime' = TRUE /\ rerr' = c.err /\ recvPc' = "handoff"
             [] c.kind = "ping" ->
                  UNCHANGED << lastMsgTime, rerr >> /\ recvPc' = "pong"
             [] OTHER ->
                  UNCHANGED lastMsgTime /\ rerr' = c.err /\ recvPc' = "handoff"
  /\ UNCHANGED << peerVars, nread, readFailed, framerPc, supVars, hostVars, actVars, conn,
                  open, ready, wlog, inWrite,
                  otherPc, taken >>

\* ReceiveMessage: return msg, a.pong(c, parts[1])
RecvPong ==
  /\ recvPc = "pong"
  /\ \E res \in WriteOutcomes :
       /\ Write("recv", Serialize(Outbound("PONG", rmsg[1].Text)), res)
       /\ rerr' = WriteErr(res)
  /\ recvPc' = "handoff"
  /\ UNCHANGED << peerVars, framerVars, supVars, hostVars, actVars, conn, open,
                  ready, lastMsgTime, rmsg, received,
                  otherPc, taken >>

\* faulty variant of Handoff: actionLoop returns when it is handed a nil msg
HandoffNilEnds ==
  /\ recvPc = "handoff" /\ actPc = "select"
  /\ recvPc' = "recv"
  /\ IF rmsg = <<>>
     THEN actPc' = "done" /\ UNCHANGED << cur, ai, hj, dispatched, calls >>
     ELSE /\ dispatched' = Append(dispatched, rmsg[1])
          /\ cur' = rmsg
          /\ ai' = NextMatch(actions, 1, rmsg[1])
          /\ actPc' = IF NextMatch(actions, 1, rmsg[1]) = 0 THEN "select" ELSE "iter"
          /\ UNCHANGED << hj, calls >>
  /\ UNCHANGED << peerVars, framerVars, supVars, hostVars, conn, open, ready,
                  lastMsgTime, rmsg, rerr, received, wlog, inWrite,
                  otherPc, taken >>

\* h.msg <- msg meets `case msg := <-h.msg`; a nil msg is skipped, otherwise
\* the loop over h.actions starts at the first action that matches
Handoff ==
  /\ recvPc = "handoff" /\ actPc = "select"
  /\ recvPc' = "recv"
  /\ IF rmsg = <<>>
     THEN UNCHANGED actVars
     ELSE /\ dispatched' = Append(dispatched, rmsg[1])
          /\ cur' = rmsg
          /\ ai' = NextMatch(actions, 1, rmsg[1])
          /\ actPc' = IF NextMatch(actions, 1, rmsg[1]) = 0 THEN "select" ELSE "iter"
          /\ UNCHANGED << hj, calls >>
  /\ UNCHANGED << peerVars, framerVars, supVars, hostVars, conn, open, ready,
                  lastMsgTime, rmsg, rerr, received, wlog, inWrite,
                  otherPc, taken >>


\* ------------------------------------------------------------ actionLoop
Call(res) == [ev |-> Len(dispatched), act |-> ai, res |-> res]

\* faulty variant of Continue: the loop over h.actions breaks after the first
\* handler
ContinueBreak ==
  actPc' = "select" /\ cur' = <<>> /\ ai' = 0 /\ hj' = 0

\* the handler action.fn returned: the loop goes on with the next action
\* that matches, or back to the select when none is left
Continue ==
  LET k == NextMatch(actions, ai + 1, cur[1]) IN
  IF k = 0
  THEN actPc' = "select" /\ cur' = <<>> /\ ai' = 0 /\ hj' = 0
  ELSE actPc' = "iter" /\ ai' = k /\ hj' = 0 /\ UNCHANGED cur

\* faulty variant of OneWrite: an error of the handler ends actionLoop
OneWriteAbort(line) ==
  \E res \in WriteOutcomes :
    /\ Write("act", line, res)
    /\ calls' = Append(calls, Call(WriteErr(res)))
    /\ IF res = "ok" THEN Continue
       ELSE actPc' = "done" /\ UNCHANGED << cur, ai, hj >>

\* a handler that makes one call of SendMessage (or conn.Write) and returns
\* its error
OneWrite(line) ==
  \E res \in WriteOutcomes :
    /\ Write("act", line, res)
    /\ calls' = Append(calls, Call(WriteErr(res)))
    /\ Continue

JoinLine(channel) == Serialize(Outbound("JOIN " \o channel, ""))

PartLine(channel) == Serialize(Outbound("PART " \o channel, ""))

\* API.Ping writes its line itself
PingLine == "PING " \o networkHost \o "\n"

\* faulty variant of ActOnReady: the handler returns while joinChannels is still
\* running, as if it had been started with a go statement
ActOnReadyDetached ==
  /\ actPc = "iter" /\ actions[ai].fn = "actionOnReady"
  /\ ready' = TRUE
  /\ \E res \in WriteOutcomes :
       /\ Write("act", JoinLine(channels[1]), res)
       /\ calls' = Append(calls, Call("running"))
       /\ Continue
  /\ UNCHANGED << peerVars, framerVars, supVars, hostVars, recvVars, conn,
                  open, lastMsgTime, dispatched >>

\* faulty variant of ActOnReady: joinChannels goes on with the next channel after a
\* JOIN that failed
ActOnReadyKeepGoing ==
  /\ actPc = "iter" /\ actions[ai].fn = "actionOnReady"
  /\ ready' = TRUE
  /\ \E res \in WriteOutcomes :
       /\ Write("act", JoinLine(channels[1]), res)
       /\ IF Len(channels) > 1
          THEN /\ calls' = Append(calls, Call("running"))
               /\ actPc' = "join" /\ hj' = 2
               /\ UNCHANGED << cur, ai >>
          ELSE calls' = Append(calls, Call(WriteErr(res))) /\ Continue
  /\ UNCHANGED << peerVars, framerVars, supVars, hostVars, recvVars, conn,
                  open, lastMsgTime, dispatched >>

\* faulty variant of ActOnReady: a session that is ready already joins nothing
ActOnReadyOnce ==
  /\ actPc = "iter" /\ actions[ai].fn = "actionOnReady"
  /\ ready' = TRUE
  /\ IF channels = <<>> \/ ready
     THEN /\ calls' = Append(calls, Call(NoErr)) /\ Continue
          /\ UNCHANGED << wlog, inWrite >>
     ELSE \E res \in WriteOutcomes :
            /\ Write("act", JoinLine(channels[1]), res)
            /\ IF res = "ok" /\ Len(channels) > 1
               THEN /\ calls' = Append(calls, Call("running"))
                    /\ actPc' = "join" /\ hj' = 2
                    /\ UNCHANGED << cur, ai >>
               ELSE calls' = Append(calls, Call(WriteErr(res))) /\ Continue
  /\ UNCHANGED << peerVars, framerVars, supVars, hostVars, recvVars, conn,
                  open, lastMsgTime, dispatched >>

\* actionOnReady up to the first JOIN of joinChannels
ActOnReady ==
  /\ actPc = "iter" /\ actions[ai].fn = "actionOnReady"
  /\ ready' = TRUE
  /\ IF channels = <<>>
     THEN /\ calls' = Append(calls, Call(NoErr)) /\ Continue
          /\ UNCHANGED << wlog, inWrite >>
     ELSE \E res \in WriteOutcomes :
            /\ Write("act", JoinLine(channels[1]), res)
            /\ IF res = "ok" /\ Len(channels) > 1
               THEN /\ calls' = Append(calls, Call("running"))
                    /\ actPc' = "join" /\ hj' = 2
                    /\ UNCHANGED << cur, ai >>
               ELSE calls' = Append(calls, Call(WriteErr(res))) /\ Continue
  /\ UNCHANGED << peerVars, framerVars, supVars, hostVars, recvVars, conn,
                  open, lastMsgTime, dispatched >>

\* faulty variant of ActJoinNext: joinChannels returns nil after the first channel
ActJoinNextSkip ==
  /\ actPc = "join"
  /\ calls' = [calls EXCEPT ![Len(calls)].res = NoErr]
  /\ Continue
  /\ UNCHANGED << peerVars, framerVars, supVars, hostVars, recvVars, conn,
                  open, ready, lastMsgTime, dispatched, wlog, inWrite >>

\* joinChannels: the JOIN of the next channel; the first error ends the loop
ActJoinNext ==
  /\ actPc = "join"
  /\ \E res \in WriteOutcomes :
       /\ Write("act", JoinLine(channels[hj]), res)
       /\ IF res = "ok" /\ hj < Len(channels)
          THEN hj' = hj + 1 /\ UNCHANGED << actPc, cur, ai, calls >>
          ELSE /\ calls' = [calls EXCEPT ![Len(calls)].res = WriteErr(res)]
               /\ Continue
  /\ UNCHANGED << peerVars, framerVars, supVars, hostVars, recvVars, conn,
                  open, ready, lastMsgTime, dispatched >>

ActJoinChannel ==
  /\ actPc = "iter" /\ actions[ai].fn = "actionJoinChannel"
  /\ OneWrite(JoinLine(JoinArgOf[cur[1].Text]))
  /\ UNCHANGED << peerVars, framerVars, supVars, hostVars, recvVars, conn,
                  open, ready, lastMsgTime, dispatched >>

\* faulty variant of ActLeaveChannel: the submatch is used even when it is
\* empty
ActLeaveChannelNoDefault ==
  /\ actPc = "iter" /\ actions[ai].fn = "actionLeaveChannel"
  /\ OneWrite(PartLine(LeaveArgOf[cur[1].Text]))
  /\ UNCHANGED << peerVars, framerVars, supVars, hostVars, recvVars, conn,
                  open, ready, lastMsgTime, dispatched >>

ActLeaveChannel ==
  /\ actPc = "iter" /\ actions[ai].fn = "actionLeaveChannel"
  /\ LET channel == IF LeaveArgOf[cur[1].Text] = "" THEN cur[1].Receiver
                    ELSE LeaveArgOf[cur[1].Text]
     IN OneWrite(PartLine(channel))
  /\ UNCHANGED << peerVars, framerVars, supVars, hostVars, recvVars, conn,
                  open, ready, lastMsgTime, dispatched >>

ActPing ==
  /\ actPc = "iter" /\ actions[ai].fn = "actionPing"
  /\ OneWrite(PingLine)
  /\ UNCHANGED << peerVars, framerVars, supVars, hostVars, recvVars, conn,
                  open, ready, lastMsgTime, dispatched >>

\* a handler of the embedding program: no write, returns nil
ActAppHook ==
  /\ actPc = "iter" /\ actions[ai].fn = "appHook"
  /\ calls' = Append(calls, Call(NoErr)) /\ Continue
  /\ UNCHANGED << peerVars, framerVars, supVars, hostVars, recvVars, conn,
                  open, ready, lastMsgTime, dispatched, wlog, inWrite >>

\* a handler of the embedding program that never returns: the action loop
\* stays inside the call
ActAppBlock ==
  /\ actPc = "iter" /\ actions[ai].fn = "appBlock"
  /\ calls' = Append(calls, Call("running"))
  /\ actPc' = "blocked"
  /\ UNCHANGED << peerVars, framerVars, supVars, hostVars, recvVars, conn,
                  open, ready, lastMsgTime, cur, ai, hj, dispatched, wlog,
                  inWrite >>

\* `case <-c.Done(): return c.Err()`
ActCancel ==
  /\ actPc = "select" /\ cancelled
  /\ actPc' = "done"
  /\ UNCHANGED << peerVars, framerVars, supVars, hostVars, recvVars, conn,
                  open, ready, lastMsgTime, cur, ai, hj, dispatched, calls,
                  wlog, inWrite >>

Next ==
  \/ PeerSend \/ PeerClose
  \/ HostNew \/ HostRegister \/ HostStart
  \/ Connect \/ Poll \/ LoginNick \/ LoginUser \/ StartReturn
  \/ StopQuit \/ StopClose \/ HostCancel
  \/ FramerRead \/ FramerReadErr \/ FramerEnqueue
  \/ RecvDequeue \/ RecvPong \/ Handoff
  \/ ActOnReady \/ ActJoinNext \/ ActJoinChannel \/ ActLeaveChannel
  \/ ActPing \/ ActAppHook \/ ActAppBlock \/ ActCancel

Spec == Init /\ [][Next]_vars

\* Scheduling: the program does not stop while one of its goroutines can take
\* a step (no goroutine can cycle: every step that changes the state moves a
\* counter or a history forward).  The peer and the interrupt signal are under
\* no obligation.
FramerStep == FramerRead \/ FramerReadErr \/ FramerEnqueue

SupervisorStep == Poll \/ LoginNick \/ LoginUser

ReceiveStep == RecvDequeue \/ RecvPong \/ Handoff

ActionStep ==
  \/ ActOnReady \/ ActJoinNext \/ ActJoinChannel \/ ActLeaveChannel
  \/ ActPing \/ ActAppHook \/ ActAppBlock \/ ActCancel

HostStep ==
  \/ HostNew \/ HostRegister \/ HostStart \/ Connect \/ StartReturn
  \/ StopClose \/ HostCancel

ProgramStep ==
  FramerStep \/ SupervisorStep \/ ReceiveStep \/ ActionStep \/ HostStep

LiveSpec == Spec /\ WF_vars(ProgramStep)

\* ------------------------------------------- the calls of conn.Write, open
\* In Spec a call of a.conn.Write is one step, the instant at which the
\* connection takes the line.  SpecWrite shows the call as an interval: a
\* path enters a.conn.Write (SendMessage and Ping call it without taking any
\* lock, the API struct has none) and leaves it in the step that records the
\* line.
Paths == {"sup", "recv", "act", "host"}

\* path p is at a statement whose next effect is a call of a.conn.Write
AtWrite(p) ==
  CASE p = "sup" -> supPc \in {"nick", "user"}
    [] p = "recv" -> recvPc = "pong"
    [] p = "act" ->
         \/ actPc = "join"
         \/ /\ actPc = "iter"
            /\ \/ actions[ai].fn \in
                    {"actionJoinChannel", "actionLeaveChannel", "actionPing"}
               \/ actions[ai].fn = "actionOnReady" /\ channels # <<>>
    [] p = "host" -> env.sigint /\ hostPc = "running"

EnterWrite(p) ==
  /\ p \notin inWrite /\ AtWrite(p)
  /\ inWrite' = inWrite \cup {p}
  /\ UNCHANGED << peerVars, framerVars, supVars, hostVars, recvVars, actVars,
                  conn, open, ready, lastMsgTime, wlog >>

NextWrite == Next \/ \E p \in Paths : EnterWrite(p)

SpecWrite == Init /\ [][NextWrite]_vars

\* ------------------------------------------- parsing and serializing alone
\* ReceiveMessage followed by SendMessage on one line, outside any session:
\* the line is drawn from the lines `:<sender> <command> <receiver> [:]<text>`
\* over a few senders, commands, receivers and texts, and from lines of the
\* other shapes and of no shape; the event sent back has the command, the
\* receiver and the text of the event received.  The connection may have
\* been reset by the peer, in which case the writes fail.
CodecSenders == {"u", "s!a@h"}
CodecCommands == {"PRIVMSG", "005"}
CodecReceivers == {"#c", "n"}
CodecTexts == {"", "x", ":x", "a b :c", "!join #t"}

CodecLines ==
  { ":" \o s \o " " \o c \o " " \o r \o " " \o colon \o t \o "\r\n" :
      s \in CodecSenders, c \in CodecCommands, r \in CodecReceivers,
      colon \in {"", ":"}, t \in CodecTexts }

\* PING and ERROR lines, and lines that miss a shape by one detail
CodecOtherLines ==
  { LnPing, LnPingEmpty, LnError, LnJunk, "PING tok\r\n", "PING :a b\r\n",
    "ERROR bye\r\n", "ERROR :\r\n", " PING :tok\r\n", ":u PRIVMSG #c\r\n",
    ":u  PRIVMSG #c :x\r\n", ":u PRIVMSG #c :x\n", ": PRIVMSG #c :x\r\n",
    ":u PRIVMSG #c :x\r\r\n", "\r\n" }

InitCodec ==
  /\ env = EnvCommands
  /\ sent = <<>> /\ peerClosed \in BOOLEAN /\ nread = 0 /\ readFailed = FALSE
  /\ conn = "open" /\ open = TRUE /\ ready = FALSE /\ lastMsgTime = FALSE
  /\ \E l \in CodecLines \cup CodecOtherLines : rawMsgs = << l >>
  /\ framerPc = "off"
  /\ supPc = "off" /\ elapsed = 0 /\ slept = FALSE
  /\ err = NoErr /\ e = NoErr /\ wgDone = FALSE /\ startRet = "none"
  /\ stopRet = "none" /\ handlerRet = "none"
  /\ hostPc = "codec" /\ cancelled = FALSE /\ actions = <<>>
  /\ recvPc = "parse" /\ rmsg = <<>> /\ rerr = NoErr /\ received = <<>>
  /\ actPc = "off" /\ cur = <<>> /\ ai = 0 /\ hj = 0
  /\ dispatched = <<>> /\ calls = <<>> /\ wlog = <<>> /\ inWrite = {}
  /\ otherPc = "off" /\ taken = <<>>

\* ReceiveMessage on the queued line, the answer to a PING included
CodecParse ==
  /\ recvPc = "parse" /\ rawMsgs # <<>>
  /\ LET c == Classify(Head(rawMsgs))
     IN /\ rmsg' = c.msg
        /\ lastMsgTime' = (c.kind = "line")
        /\ IF c.kind = "ping"
           THEN \E res \in WriteOutcomes :
                  /\ Write("codec", Serialize(Outbound("PONG", c.msg[1].Text)), res)
                  /\ rerr' = WriteErr(res)
           ELSE rerr' = c.err /\ UNCHANGED << wlog, inWrite >>
  /\ received' = Append(received, Head(rawMsgs))
  /\ rawMsgs' = Tail(rawMsgs)
  /\ recvPc' = "serialize"
  /\ UNCHANGED << peerVars, nread, readFailed, framerPc, supVars, hostVars,
                  actVars, conn, open, ready,
                  otherPc, taken >>

\* SendMessage on an event with the same command, receiver and text; cur is
\* the event given to SendMessage, err the error it returns
CodecSerialize ==
  /\ recvPc = "serialize" /\ rmsg # <<>>
  /\ LET m == Message(rmsg[1].Text, rmsg[1].Command, "", rmsg[1].Receiver, "")
     IN /\ cur' = << m >>
        /\ \E res \in WriteOutcomes :
             Write("codec", Serialize(m), res) /\ err' = WriteErr(res)
  /\ recvPc' = "written"
  /\ UNCHANGED << peerVars, framerVars, hostVars, conn, open, ready,
                  lastMsgTime, rmsg, rerr, received, supPc, elapsed, slept, e,
                  wgDone, actPc, ai, hj, dispatched, calls,
                  otherPc, taken >>

NextCodec == CodecParse \/ CodecSerialize

SpecCodec == InitCodec /\ [][NextCodec]_vars

\* --------------------------------------------------- concurrent receivers
\* Two callers of ReceiveMessage on a connected API that no Handler consumes:
\* the loop of the test, which calls ReceiveMessage again after each result,
\* and a second caller running next to it.
InitReaders ==
  /\ env = EnvQueue
  /\ sent = <<>> /\ peerClosed = FALSE /\ nread = 0 /\ readFailed = FALSE
  /\ conn = "open" /\ open = TRUE /\ ready = FALSE /\ lastMsgTime = FALSE
  /\ rawMsgs = <<>> /\ framerPc = "read"
  /\ supPc = "off" /\ elapsed = 0 /\ slept = FALSE
  /\ err = NoErr /\ e = NoErr /\ wgDone = FALSE /\ startRet = "none"
  /\ stopRet = "none" /\ handlerRet = "none"
  /\ hostPc = "readers" /\ cancelled = FALSE /\ actions = <<>>
  /\ recvPc = "recv" /\ rmsg = <<>> /\ rerr = NoErr /\ received = <<>>
  /\ actPc = "off" /\ cur = <<>> /\ ai = 0 /\ hj = 0
  /\ dispatched = <<>> /\ calls = <<>> /\ wlog = <<>> /\ inWrite = {}
  /\ otherPc = "recv" /\ taken = <<>>

\* the loop of the test takes the result and calls ReceiveMessage again
ReceiveReturn ==
  /\ hostPc = "readers" /\ recvPc = "handoff"
  /\ recvPc' = "recv"
  /\ UNCHANGED << peerVars, framerVars, supVars, hostVars, actVars, conn, open,
                  ready, lastMsgTime, rmsg, rerr, received, otherPc, taken,
                  wlog, inWrite >>

\* faulty variant of OtherReceive: the line is read from the queue and left in it
OtherReceivePeek ==
  /\ otherPc = "recv"
  /\ rawMsgs # <<>>
  /\ LET line == Head(rawMsgs)
         c == Parsed[line]
     IN /\ taken' = Append(taken, line)
        /\ lastMsgTime' = (lastMsgTime \/ c.kind = "line")
        /\ otherPc' = IF c.kind = "ping" THEN "pong" ELSE "recv"
  /\ UNCHANGED << peerVars, framerVars, supVars, hostVars, actVars,
                  conn, open, ready, recvPc, rmsg, rerr, received, wlog, inWrite >>

\* ReceiveMessage called by the second caller: `bts := <-a.rawMsgs` and the
\* classification of the line
OtherReceive ==
  /\ otherPc = "recv"
  /\ rawMsgs # <<>>
  /\ LET line == Head(rawMsgs)
         c == Parsed[line]
     IN /\ rawMsgs' = Tail(rawMsgs)
        /\ taken' = Append(taken, line)
        /\ lastMsgTime' = (lastMsgTime \/ c.kind = "line")
        /\ otherPc' = IF c.kind = "ping" THEN "pong" ELSE "recv"
  /\ UNCHANGED << peerVars, nread, readFailed, framerPc, supVars, hostVars, actVars,
                  conn, open, ready, recvPc, rmsg, rerr, received, wlog, inWrite >>

\* ReceiveMessage called by the second caller: return msg, a.pong(c, parts[1])
OtherPong ==
  /\ otherPc = "pong"
  /\ \E res \in WriteOutcomes :
       Write("other", Serialize(Outbound("PONG", Parsed[taken[Len(taken)]].msg[1].Text)), res)
  /\ otherPc' = "recv"
  /\ UNCHANGED << peerVars, framerVars, supVars, hostVars, actVars, conn, open,
                  ready, lastMsgTime, recvPc, rmsg, rerr, received, taken >>

NextReaders ==
  \/ PeerSend
  \/ FramerRead
  \/ FramerEnqueue
  \/ RecvDequeue
  \/ RecvPong
  \/ ReceiveReturn
  \/ OtherReceive
  \/ OtherPong

SpecReaders == InitReaders /\ [][NextReaders]_vars

TypeOK ==
  /\ Len(sent) <= MaxLines /\ nread <= Len(sent)
  /\ Len(rawMsgs) <= QueueCap
  /\ conn \in {"none", "open", "closed"}


\* ================================================================== claims
\* Lines as the tests of the client spell them (irc_test.go, msgNick,
\* msgUser, msgPong) and as the protocol spells a JOIN.
NickLine == "NICK freyabot\n"
UserLine == "USER freyabot 0 * :FreyaBot\n"

Writes(line) == { i \in DOMAIN wlog : wlog[i].line = line }

JoinWrites == { i \in DOMAIN wlog : SubSeq(wlog[i].line, 1, 5) = "JOIN " }

\* the line pollConn holds while it waits for room in a.rawMsgs
Held == IF framerPc = "enq" THEN << sent[nread] >> ELSE <<>>

C2_LoginBeforeJoin ==
  /\ Cardinality(Writes(NickLine)) <= 1
  /\ Cardinality(Writes(UserLine)) <= 1
  /\ Writes(NickLine) # {} => slept
  /\ \A u \in Writes(UserLine) : \E n \in Writes(NickLine) : n < u
  /\ \A j \in JoinWrites :
       \E n \in Writes(NickLine), u \in Writes(UserLine) : n < u /\ u < j

\* C3: when the dial succeeded and the peer has sent nothing by the time
\* Start returns, Start returns ErrTimeout; and ErrTimeout is returned by
\* nothing but the expiry of the liveness wait (a failed dial returns another
\* error).
C3_TimeoutError ==
  /\ (startRet # "none" /\ conn # "none" /\ sent = <<>>) => startRet = ErrTimeout
  /\ startRet = ErrTimeout =>
       (conn # "none" /\ elapsed > TimeoutPolls /\ ErrTimeout # ErrDial)

C3_Witness == startRet = ErrTimeout /\ sent = <<>> /\ hostPc = "failed"

\* C4: once the liveness wait has timed out, no NICK and no USER line has
\* been or is ever handed to the transport, not even when lines are received
\* after Start has returned.
C4_NoLoginAfterTimeout ==
  (err = ErrTimeout \/ startRet = ErrTimeout) =>
    (Writes(NickLine) = {} /\ Writes(UserLine) = {} /\ supPc = "exit" /\ ~slept)

\* C4 witness: Start failed with the timeout and an addressed line was
\* received afterwards.
C4_Witness == startRet = ErrTimeout /\ lastMsgTime

\* a line `PING :X` and its token X
IsPingLine(l) ==
  /\ Len(l) >= 8 /\ HasPrefixAt(l, 1, "PING :")
  /\ SubSeq(l, Len(l) - 1, Len(l)) = "\r\n"

Token(l) == SubSeq(l, 7, Len(l) - 2)

IsPongWrite(w) == HasPrefixAt(w.line, 1, "PONG")

IsPingEvent(m) == IsPingLine(m.Raw)

\* the dequeued lines whose ReceiveMessage call has written its answer, and
\* those whose ReceiveMessage call has handed its result to the dispatcher
Answered ==
  IF recvPc = "pong" THEN SubSeq(received, 1, Len(received) - 1) ELSE received

HandedOff ==
  IF recvPc \in {"pong", "handoff"} THEN SubSeq(received, 1, Len(received) - 1)
  ELSE received

PingEvent(l) == Message(Token(l), "PING", "", "", l)

\* C5 (as claimed): the PONG lines handed to the transport are, in order, one
\* `PONG :X` for each dequeued line `PING :X`, and the events produced for
\* those lines are, in order, one event each with command PING and text X.
C5_OnePongPerPing ==
  LET pongs == SelectSeq(wlog, IsPongWrite)
      pings == SelectSeq(Answered, IsPingLine)
      events == SelectSeq(dispatched, IsPingEvent)
      handed == SelectSeq(HandedOff, IsPingLine)
  IN /\ Len(pongs) = Len(pings)
     /\ \A i \in DOMAIN pongs :
          pongs[i].line = "PONG :" \o Token(pings[i]) \o "\n"
     /\ Len(events) = Len(handed)
     /\ \A i \in DOMAIN events : events[i] = PingEvent(handed[i])
     /\ (recvPc \in {"pong", "handoff"} /\ IsPingLine(received[Len(received)]))
          => rmsg = << PingEvent(received[Len(received)]) >>

FarewellLine == "QUIT :I must go! My people need me.\n"

\* C6: a write to the transport issued after Stop has returned fails with the
\* closed-connection error, and a write issued after Start has returned nil
\* and before Stop is called succeeds (the peer not having reset the
\* connection).
C6_WritesAroundStop ==
  [][Len(wlog') > Len(wlog) =>
       LET r == wlog'[Len(wlog')].res
       IN /\ hostPc \in {"stopped", "done"} => r = "closed"
          /\ (hostPc = "running" /\ ~peerClosed) => r = "ok"]_vars

\* C6 witness: a write succeeded before the farewell of Stop, and a Ping
\* issued after Stop has returned was refused by the closed connection.
C6_Witness ==
  /\ hostPc \in {"stopped", "done"}
  /\ \E i, q, j \in DOMAIN wlog :
       /\ i < q /\ q < j
       /\ wlog[i].res = "ok" /\ wlog[q].line = FarewellLine
       /\ wlog[j] = [line |-> "PING irc.test\n", res |-> "closed"]

\* C7: Stop hands the QUIT line to the transport exactly once, while the
\* connection is not yet closed; a closed connection has seen its QUIT, and
\* no QUIT is attempted on it afterwards.
C7_QuitOnceBeforeClose ==
  /\ Cardinality(Writes(FarewellLine)) =
       IF hostPc \in {"close", "stopped", "done"} THEN 1 ELSE 0
  /\ \A q \in Writes(FarewellLine) : wlog[q].res # "closed"
  /\ conn = "closed" => Writes(FarewellLine) # {}

\* C7 witness: Stop has returned after a farewell that reached the peer, and
\* later writes were attempted on the closed connection.
C7_Witness ==
  /\ hostPc = "done" /\ conn = "closed"
  /\ \E q \in Writes(FarewellLine) : wlog[q].res = "ok" /\ q < Len(wlog)

\* the registered actions event k must fire: same command, pattern found
ShouldFire(k) ==
  { i \in DOMAIN actions :
      /\ actions[i].Command = dispatched[k].Command
      /\ PatternFound[actions[i].re, dispatched[k].Text] }

\* the positions in calls of the handler invocations made for event k
CallsOf(k) == { n \in DOMAIN calls : calls[n].ev = k }

Fired(k) == { calls[n].act : n \in CallsOf(k) }

\* actionLoop has left the loop over h.actions for event k
Complete(k) == k < Len(dispatched) \/ actPc \in {"select", "done"}

Failed(n) == calls[n].res \notin {NoErr, "running"}

\* C8: for every dispatched event the handlers of all the matching actions
\* are invoked, each once, duplicates included, in registration order, and
\* the invocations of one event precede those of the next.
C8_AllMatchesInOrder ==
  /\ \A n, m \in DOMAIN calls :
       n < m => \/ calls[n].ev < calls[m].ev
                \/ calls[n].ev = calls[m].ev /\ calls[n].act < calls[m].act
  /\ \A k \in DOMAIN dispatched :
       /\ Fired(k) \subseteq ShouldFire(k)
       /\ Complete(k) => Fired(k) = ShouldFire(k)
       /\ ~Complete(k) => \A i \in ShouldFire(k) : i < ai => i \in Fired(k)

\* C8 witness: an event matched by four actions, two of them duplicates of
\* one registration, has had its four handlers invoked.
C8_Witness ==
  \E k \in DOMAIN dispatched :
    /\ Complete(k) /\ Cardinality(CallsOf(k)) >= 4
    /\ \E i, j \in Fired(k) : i # j /\ actions[i] = actions[j]

\* C9: after a handler has returned an error, the later matching handlers of
\* the same event are still invoked, and the action loop stays alive for the
\* events that follow: it ends on the cancellation of its context only.
C9_HandlerErrorIsolated ==
  /\ \A n \in DOMAIN calls :
       (Failed(n) /\ Complete(calls[n].ev)) =>
         \A i \in ShouldFire(calls[n].ev) :
           i > calls[n].act =>
             \E m \in CallsOf(calls[n].ev) : m > n /\ calls[m].act = i
  /\ actPc = "done" => cancelled

\* C9 witness: a handler failed, a later handler ran for the same event, and
\* a handler ran for a later event.
C9_Witness ==
  \E n, m, p \in DOMAIN calls :
    /\ n < m /\ m < p /\ Failed(n)
    /\ calls[m].ev = calls[n].ev /\ calls[p].ev > calls[n].ev

\* C10 (amended): a handler is invoked for an event iff the command filter of
\* its action equals the command of the event and its pattern is found in
\* the text; the lifecycle hook, registered on 005 with an empty pattern,
\* fires for every 005 event whatever its text; every dispatched event has a
\* command, so an action with an empty command filter never fires.
C10_MatchRule ==
  /\ \A k \in DOMAIN dispatched :
       /\ dispatched[k].Command # ""
       /\ Fired(k) \subseteq ShouldFire(k)
       /\ Complete(k) =>
            /\ ShouldFire(k) \subseteq Fired(k)
            /\ dispatched[k].Command = "005" =>
                 \E i \in Fired(k) : actions[i].fn = "actionOnReady"
  /\ \A n \in DOMAIN calls : actions[calls[n].act].Command # ""

\* C10 witness: a 005 event has been dispatched completely, the lifecycle
\* hook has run, and the registered action with the empty command filter has
\* not.
C10_Witness ==
  \E k \in DOMAIN dispatched :
    /\ Complete(k) /\ dispatched[k].Command = "005"
    /\ \E i \in Fired(k) : actions[i].fn = "actionOnReady"
    /\ \E i \in DOMAIN actions : actions[i].Command = "" /\ i \notin Fired(k)

\* C10 (as claimed): in addition to the actions whose filter equals the
\* command, an action with an empty command filter fires for the lifecycle
\* event.
C10_EmptyFilterFires ==
  \A k \in DOMAIN dispatched :
    Complete(k) =>
      /\ ShouldFire(k) \subseteq Fired(k)
      /\ dispatched[k].Command = "005" =>
           \A i \in DOMAIN actions :
             (actions[i].Command = "" /\ PatternFound[actions[i].re, dispatched[k].Text])
               => i \in Fired(k)

\* the lines of the peer for which ReceiveMessage returns an event
EventLines == { l \in PeerLines : Parsed[l].msg # <<>> }

IsEventLine(l) == l \in EventLines

C12_OneWriteAtATime == Cardinality(inWrite) <= 1

\* C13: at most one handler is executing: a handler that has not returned
\* is the last one invoked, the action loop is inside it, and no other
\* handler is invoked until it returns.
C13_OneHandlerAtATime ==
  /\ \A n \in DOMAIN calls :
       calls[n].res = "running" => n = Len(calls) /\ actPc \in {"join", "blocked"}
  /\ actPc \in {"join", "blocked"} =>
       calls # <<>> /\ calls[Len(calls)].res = "running"

\* C13 witness: a handler is in the middle of its work while the next event
\* is ready to be handed to the action loop.
C13_Witness ==
  actPc = "join" /\ recvPc = "handoff" /\ rmsg # <<>> /\ Len(dispatched) >= 1

\* C14 (as claimed, in its weakest reading): the liveness wait times out
\* only when the consumer has dequeued no line at all; the case where an
\* addressed line was dequeued and its timestamp not yet seen is left aside.
C14_AnyLineEndsWait ==
  [][(err' = ErrTimeout /\ err # ErrTimeout)
       => (received = <<>> \/ lastMsgTime)]_vars

\* C15 (as claimed): when a.login returned an error, that error is what
\* Start returns.
C15_LoginErrorReturned ==
  (startRet # "none" /\ e # NoErr) => startRet = e

\* C16 (as claimed): ready implies that the login delay has been slept and
\* that the NICK line and the USER line have both been written with success.
C16_ReadyAfterLogin ==
  ready =>
    /\ slept
    /\ \E n \in Writes(NickLine) : wlog[n].res = "ok"
    /\ \E u \in Writes(UserLine) : wlog[u].res = "ok"

\* the JOIN lines of the configured channels in the write log, in order
IsConfiguredJoin(w) ==
  \E j \in DOMAIN channels : w.line = "JOIN " \o channels[j] \o "\n"

JoinLog == SelectSeq(wlog, IsConfiguredJoin)

\* the channel JoinLog[i] is due for: the first one at the start and after
\* a batch has ended (by its last channel or by a failed write), the next
\* one after a successful write
RECURSIVE JoinPos(_)
JoinPos(i) ==
  IF i = 1 THEN 1
  ELSE IF JoinLog[i - 1].res = "ok" /\ JoinPos(i - 1) < Len(channels)
       THEN JoinPos(i - 1) + 1
       ELSE 1

\* what the batches that have ended among JoinLog[1..i] returned
RECURSIVE JoinOutcomes(_)
JoinOutcomes(i) ==
  IF i = 0 THEN <<>>
  ELSE IF JoinLog[i].res # "ok" THEN Append(JoinOutcomes(i - 1), JoinLog[i].res)
  ELSE IF JoinPos(i) = Len(channels) THEN Append(JoinOutcomes(i - 1), NoErr)
  ELSE JoinOutcomes(i - 1)

IsReadyCall(c) == actions[c.act].fn = "actionOnReady"

ReadyCalls == SelectSeq(calls, IsReadyCall)

IsFinished(c) == c.res # "running"

\* C17: every completely dispatched 005 event has run the ready handler
\* once; ready is true from the first such invocation on; the JOIN lines of
\* the configured channels follow the configuration order; and each
\* invocation that returned nil wrote one JOIN line for every channel.
C17_ReadyJoinsAll ==
  /\ ready <=> ReadyCalls # <<>>
  /\ \A k \in DOMAIN dispatched :
       (Complete(k) /\ dispatched[k].Command = "005") =>
         Cardinality({ n \in CallsOf(k) : IsReadyCall(calls[n]) }) = 1
  /\ \A i \in DOMAIN JoinLog :
       (i = 1 \/ JoinLog[i - 1].res = "ok") =>
         JoinLog[i].line = "JOIN " \o channels[JoinPos(i)] \o "\n"
  /\ Cardinality({ n \in DOMAIN ReadyCalls : ReadyCalls[n].res = NoErr })
       = Cardinality({ i \in DOMAIN JoinLog :
                         JoinLog[i].res = "ok" /\ JoinPos(i) = Len(channels) })

\* C17 witness: two 005 events have been dispatched and each has written
\* the JOIN lines of all the channels.
C17_Witness ==
  /\ Len(ReadyCalls) = 2 /\ \A n \in DOMAIN ReadyCalls : ReadyCalls[n].res = NoErr
  /\ Len(JoinLog) = 2 * Len(channels)

\* C18: a JOIN write that fails ends its call of joinChannels: the call
\* returns that error, and the next JOIN line, if there is one, belongs to a
\* later call and is for the first configured channel again.
C18_FirstJoinErrorAborts ==
  /\ LET done == SelectSeq(ReadyCalls, IsFinished)
     IN /\ JoinOutcomes(Len(JoinLog)) = [n \in DOMAIN done |-> done[n].res]
        /\ Len(ReadyCalls) - Len(done) \in {0, 1}
  /\ \A i \in DOMAIN JoinLog :
       (i > 1 /\ JoinLog[i - 1].res # "ok") =>
         JoinLog[i].line = "JOIN " \o channels[1] \o "\n"

\* C18 witness: the JOIN of the second channel failed, and a later call has
\* started again with the first channel.
C18_Witness ==
  \E i \in DOMAIN JoinLog :
    /\ JoinLog[i].res # "ok" /\ JoinPos(i) = 2
    /\ i < Len(JoinLog) /\ JoinLog[i + 1].line = "JOIN " \o channels[1] \o "\n"

\* C19 (as claimed): once a read has failed while Stop has not been called,
\* the framer has terminated.
C19_FramerStopsOnReadError ==
  (readFailed /\ hostPc \notin {"close", "stopped", "done"})
    => framerPc = "done"

\* C20 (as claimed): whenever the connection has been closed by Stop, the
\* framer eventually terminates.
C20_FramerExitsAfterStop == (conn = "closed") ~> (framerPc = "done")

\* C21 (as claimed): once the host has cancelled its context, the action loop
\* and the receive loop both eventually terminate.
C21_LoopsTornDown == cancelled ~> (actPc = "done" /\ recvPc = "done")

\* C22 (amended): the queue never holds more lines than its capacity; a
\* framer that holds a line while the queue is full stays blocked on the
\* enqueue and reads nothing until the consumer has made room, so that at
\* most capacity + 1 lines have left the transport without being dequeued.
C22_Backpressure ==
  [][/\ Len(rawMsgs) <= QueueCap /\ Len(rawMsgs') <= QueueCap
     /\ nread' - Len(received') <= QueueCap + 1
     /\ (framerPc = "enq" /\ Len(rawMsgs) = QueueCap) =>
          (framerPc' = "enq" /\ nread' = nread /\ Len(rawMsgs') <= Len(rawMsgs))]_vars

\* C22 witness: the queue is full, the framer is blocked with one more line
\* and the peer has sent lines that are left in the transport.
C22_Witness ==
  framerPc = "enq" /\ Len(rawMsgs) = QueueCap /\ nread < Len(sent)

\* C22 (as claimed): while the queue is full the framer reads no line from
\* the transport.
C22_FullQueueStopsReads ==
  [][Len(rawMsgs) = QueueCap => nread' = nread]_vars

\* the line whose ReceiveMessage call is at its return, or has returned and
\* waits for the action loop
LastLine == received[Len(received)]

IsMalformed(l) == Parsed[l].kind = "malformed"

\* C23: ReceiveMessage returns no event and the malformed-line error with the
\* raw text for a line of none of the three shapes; handing that result over
\* invokes no handler and leaves both loops running: the receive loop is back
\* at its next ReceiveMessage, the action loop is where it was, pollConn is
\* untouched, and the lines dequeued after it are those the peer sent after it.
C23_MalformedIsolated ==
  [][/\ \A i \in DOMAIN received' : received'[i] = sent'[i]
     /\ (recvPc = "handoff" /\ IsMalformed(LastLine)) =>
          /\ rmsg = <<>>
          /\ rerr = "irc: line does not match pattern: " \o LastLine
          /\ lnRe(LastLine) = NoMatch /\ pingRe(LastLine) = NoMatch
          /\ errRe(LastLine) = NoMatch
          /\ recvPc' # recvPc =>
               /\ recvPc' = "recv"
               /\ UNCHANGED << actVars, framerVars, wlog >>]_vars

\* C23 witness: the first line was malformed, and two events made from
\* later lines have been handed to the action loop.
C23_Witness ==
  /\ Len(received) >= 3 /\ IsMalformed(received[1])
  /\ Len(dispatched) >= 2 /\ recvPc = "recv" /\ actPc = "select"

IsErrorLine(l) == Parsed[l].kind = "error"

\* C24 (as claimed): a line `ERROR :<message>` yields an error and no event,
\* and no line that the consumer received after it is turned into an event
\* for the action loop.
C24_ErrorIsTerminal ==
  /\ (recvPc = "handoff" /\ IsErrorLine(LastLine)) =>
       (rmsg = <<>> /\ rerr = "irc: error: " \o SubSeq(LastLine, 8, Len(LastLine) - 2))
  /\ \A i, j \in DOMAIN HandedOff :
       (i < j /\ IsErrorLine(HandedOff[i])) => ~IsEventLine(HandedOff[j])

\* channel names an administrator may give to !join, !part and !leave
CommandChannels == {"#test", "#x"}

IsJoinCommand(m) ==
  m.Command = "PRIVMSG" /\ \E ch \in CommandChannels : m.Text = "!join " \o ch

\* the step is made by the action loop while it works on the event cur
HandlerStep == cur # <<>> /\ actVars' # actVars

\* C25: while the action loop works on a PRIVMSG event with text
\* `!join <channel>`, it invokes one handler, the one of the join action, and
\* writes one line, `JOIN <channel>`; then it is back at its select.
C25_JoinCommand ==
  [][(HandlerStep /\ IsJoinCommand(cur[1])) =>
       /\ actions[ai].fn = "actionJoinChannel"
       /\ Len(calls') = Len(calls) + 1 /\ Len(wlog') = Len(wlog) + 1
       /\ wlog'[Len(wlog')].line
            = "JOIN " \o SubSeq(cur[1].Text, 7, Len(cur[1].Text)) \o "\n"
       /\ CallsOf(Len(dispatched))' = {Len(calls')}
       /\ actPc' = "select"]_vars

\* C25 witness: `!join #test` has been handled twice and the log holds the
\* two JOIN lines.
C25_Witness ==
  /\ Len(dispatched) = 2 /\ actPc = "select"
  /\ \A k \in DOMAIN dispatched : dispatched[k].Text = "!join #test"
  /\ Cardinality(Writes("JOIN #test\n")) = 2

IsLeaveCommand(m) ==
  /\ m.Command = "PRIVMSG"
  /\ \/ m.Text \in {"!part", "!leave"}
     \/ \E ch \in CommandChannels : m.Text \in {"!part " \o ch, "!leave " \o ch}

\* the channel a leave command names: what follows the first space of its
\* text, the receiver of the event when there is no space
LeaveTarget(m) ==
  LET i == IndexFrom(m.Text, 1, " ")
  IN IF i = 0 THEN m.Receiver ELSE From(m.Text, i + 1)

\* C26: the leave handler, run for `!part` or `!leave` alone, writes one PART
\* line for the receiver of the event; run for `!part <channel>` or
\* `!leave <channel>`, it writes one PART line for <channel>.
C26_LeaveTarget ==
  [][(HandlerStep /\ IsLeaveCommand(cur[1])) =>
       /\ actions[ai].fn = "actionLeaveChannel"
       /\ Len(calls') = Len(calls) + 1 /\ Len(wlog') = Len(wlog) + 1
       /\ wlog'[Len(wlog')].line = "PART " \o LeaveTarget(cur[1]) \o "\n"]_vars

\* C26 witness: a `!part` received on #c and a `!leave #x` received in
\* private have both been handled.
C26_Witness ==
  /\ Writes("PART #c\n") # {} /\ Writes("PART #x\n") # {}
  /\ Len(dispatched) = 2 /\ actPc = "select"
  /\ \E k \in DOMAIN dispatched :
       dispatched[k].Text = "!leave #x" /\ dispatched[k].Receiver = "n"

\* C27 (as claimed): no client exists whose host is empty: once the
\* construction has returned a client, and whenever Start is called or a
\* connection exists, a.networkHost is not empty.
C27_EmptyHostRejected ==
  hostPc \notin {"new", "invalid"} => networkHost # ""

RECURSIVE Concat(_)
Concat(lines) == IF lines = <<>> THEN "" ELSE Head(lines) \o Concat(Tail(lines))

DispatchedRaw == [k \in DOMAIN dispatched |-> dispatched[k].Raw]

\* C28: the event ReceiveMessage returns has the dequeued line, CR LF
\* included, as its raw field; and as long as the lines handed over were all
\* well-formed, the raw fields of the events put end to end are the bytes the
\* peer sent for them.
C28_RawUnchanged ==
  /\ (recvPc \in {"pong", "handoff"} /\ rmsg # <<>>) => rmsg[1].Raw = LastLine
  /\ \A k \in DOMAIN dispatched :
       SubSeq(dispatched[k].Raw, Len(dispatched[k].Raw) - 1, Len(dispatched[k].Raw))
         = "\r\n"
  /\ (\A i \in DOMAIN HandedOff : IsEventLine(HandedOff[i])) =>
       Concat(DispatchedRaw) = Concat(SubSeq(sent, 1, Len(HandedOff)))

\* C28 witness: an addressed line and a PING line, both well-formed, have
\* been returned as events, and a third event is at the return of
\* ReceiveMessage.
C28_Witness ==
  /\ Len(dispatched) = 2 /\ Len(HandedOff) = 2
  /\ \E k \in DOMAIN dispatched : dispatched[k].Command = "PING"
  /\ \E k \in DOMAIN dispatched : dispatched[k].Sender # ""
  /\ recvPc = "handoff" /\ rmsg # <<>>

\* a wire line without its sender prefix and without its terminator
Body(line) ==
  LET b == IF HasPrefixAt(line, 1, ":")
           THEN From(line, IndexFrom(line, 1, " ") + 1) ELSE line
      n == IF HasPrefixAt(b, Len(b) - 1, "\r\n") THEN Len(b) - 2
           ELSE IF HasPrefixAt(b, Len(b), "\n") THEN Len(b) - 1 ELSE Len(b)
  IN SubSeq(b, 1, n)

\* a body without the optional colon in front of its text (the text starts
\* after the second space)
WithoutColon(b) ==
  LET i == IndexFrom(b, 1, " ")
      j == IF i = 0 THEN 0 ELSE IndexFrom(b, i + 1, " ")
  IN IF j # 0 /\ HasPrefixAt(b, j + 1, ":")
     THEN SubSeq(b, 1, j) \o From(b, j + 2) ELSE b

\* C29 (as claimed): the line written for the event parsed from an addressed
\* line is `<command> <receiver> :<text>`, and it is the line received
\* without its sender prefix, up to the optional colon and the terminator.
C29_RoundTrip ==
  (recvPc = "written" /\ received[1] \in CodecLines) =>
    /\ wlog[1].line
         = rmsg[1].Command \o " " \o rmsg[1].Receiver \o " :" \o rmsg[1].Text \o "\n"
    /\ WithoutColon(Body(wlog[1].line)) = WithoutColon(Body(received[1]))

\* C30: a call of Start whose dial has succeeded, waiting in wg.Wait(),
\* eventually returns.
C30_StartReturns == (hostPc = "wait") ~> (startRet # "none")

\* C30 witness: Start has returned although a login write had failed.
C30_Witness ==
  /\ startRet # "none" /\ conn # "none" /\ supPc = "exit"
  /\ \E i \in Writes(NickLine) \cup Writes(UserLine) : wlog[i].res # "ok"

\* C31: when the dial has failed, Start has returned the dial error and
\* started nothing: there is no connection, pollConn and the liveness wait
\* have not been started, nothing has been read or written; Handler.Start
\* has cancelled its context and returned the same error.
C31_DialFailure ==
  startRet = ErrDial =>
    /\ conn = "none" /\ framerPc = "off" /\ supPc = "off" /\ elapsed = 0
    /\ nread = 0 /\ rawMsgs = <<>> /\ wlog = <<>> /\ ~wgDone
    /\ cancelled /\ handlerRet = ErrDial /\ stopRet = "none"

\* C31 witness: the dial has failed and the action loop has ended on the
\* cancellation.
C31_Witness ==
  startRet = ErrDial /\ hostPc = "failed" /\ actPc = "done" /\ recvPc = "recv"

\* C32: when Stop has returned, the farewell has been attempted, the
\* connection is closed whatever became of the farewell, and the value
\* returned is that of Close, never the error of the farewell write.
C32_StopBestEffort ==
  stopRet # "none" =>
    /\ conn = "closed" /\ ~open /\ Writes(FarewellLine) # {}
    /\ stopRet \in {NoErr, ErrClose}
    /\ \A q \in Writes(FarewellLine) : stopRet # wlog[q].res

\* C32 witness: the farewell write failed on a connection reset by the peer,
\* and Stop closed the connection and returned nil.
C32_Witness ==
  /\ stopRet = NoErr /\ conn = "closed"
  /\ \E q \in Writes(FarewellLine) : wlog[q].res = "broken"

\* C33: while a handler is blocked, no later event reaches a handler (the
\* event being handled is the last one dispatched and its call is the last
\* one made), and pollConn goes on as long as the queue has room: it can read
\* the next line the peer has sent and it can enqueue the line it holds.
C33_BlockedHandler ==
  actPc = "blocked" =>
    /\ cur = << dispatched[Len(dispatched)] >>
    /\ calls[Len(calls)] = [ev |-> Len(dispatched), act |-> ai, res |-> "running"]
    /\ (framerPc = "read" /\ nread < Len(sent) /\ ~readFailed)
         => ENABLED FramerRead
    /\ (framerPc = "enq" /\ Len(rawMsgs) < QueueCap) => ENABLED FramerEnqueue

\* C33 witness: a handler is blocked, the receive loop waits with the next
\* event, and pollConn has since filled the queue.
C33_Witness ==
  /\ actPc = "blocked" /\ recvPc = "handoff"
  /\ Len(rawMsgs) = QueueCap /\ nread = Len(received) + QueueCap

\* a non-empty run of characters other than the white space [\t\n\f\r ]
IsWord(w) ==
  Len(w) > 0 /\ \A i \in 1..Len(w) : Ch(w, i) \notin {" ", "\t", "\n", "\f", "\r"}

\* a rest of line of the shape `<text>\r\n`, the text without line feed
IsRest(r) ==
  /\ Len(r) >= 2 /\ SubSeq(r, Len(r) - 1, Len(r)) = "\r\n"
  /\ \A i \in 1..(Len(r) - 2) : Ch(r, i) # "\n"

\* the ways of reading a line as `:<sender> <command> <receiver> <rest>`:
\* the positions of the three separating spaces
Readings(line) ==
  IF Len(line) = 0 \/ Ch(line, 1) # ":" THEN {}
  ELSE { f \in (2..Len(line)) \X (2..Len(line)) \X (2..Len(line)) :
           /\ f[1] < f[2] /\ f[2] < f[3]
           /\ \A k \in 1..3 : Ch(line, f[k]) = " "
           /\ IsWord(SubSeq(line, 2, f[1] - 1))
           /\ IsWord(SubSeq(line, f[1] + 1, f[2] - 1))
           /\ IsWord(SubSeq(line, f[2] + 1, f[3] - 1))
           /\ IsRest(From(line, f[3] + 1)) }

\* the event of an addressed line read as f: the text is the rest without
\* its CR LF and without the colon in front of it, if there is one
AddressedEvent(line, f) ==
  LET rest == SubSeq(line, f[3] + 1, Len(line) - 2)
  IN [Sender   |-> SubSeq(line, 2, f[1] - 1),
      Command  |-> SubSeq(line, f[1] + 1, f[2] - 1),
      Receiver |-> SubSeq(line, f[2] + 1, f[3] - 1),
      Text     |-> IF Len(rest) > 0 /\ Ch(rest, 1) = ":" THEN From(rest, 2) ELSE rest,
      Raw      |-> line]

IsPingShaped(l) == HasPrefixAt(l, 1, "PING :") /\ IsRest(From(l, 7))

IsErrorShaped(l) == HasPrefixAt(l, 1, "ERROR :") /\ IsRest(From(l, 8))

\* C34: ReceiveMessage puts a line in exactly one of four classes.  A line
\* that reads as `:<sender> <command> <receiver> [:]<text>\r\n` gives the
\* event with these four fields, the colon in front of the text stripped,
\* and records traffic; otherwise a `PING :<token>\r\n` line gives a PING
\* event with the token (and is answered); otherwise an `ERROR :<msg>\r\n`
\* line gives no event and an error with the message; any other line gives
\* no event and the no-match error.
C34_Classification ==
  recvPc \in {"serialize", "written"} =>
    LET line == received[1]
        R == Readings(line)
    IN /\ Cardinality(R) <= 1
       /\ ~(IsPingShaped(line) /\ IsErrorShaped(line))
       /\ IF R # {} THEN
            /\ rmsg = << AddressedEvent(line, CHOOSE f \in R : TRUE) >>
            /\ rerr = NoErr /\ lastMsgTime
          ELSE IF IsPingShaped(line) THEN
            /\ rmsg = << [Sender |-> "", Command |-> "PING", Receiver |-> "",
                          Text |-> SubSeq(line, 7, Len(line) - 2), Raw |-> line] >>
            /\ ~lastMsgTime /\ Len(wlog) >= 1
            /\ rerr = (IF wlog[1].res = "ok" THEN NoErr ELSE wlog[1].res)
          ELSE IF IsErrorShaped(line) THEN
            /\ rmsg = <<>> /\ ~lastMsgTime /\ wlog = <<>>
            /\ rerr = "irc: error: " \o SubSeq(line, 8, Len(line) - 2)
          ELSE
            /\ rmsg = <<>> /\ ~lastMsgTime /\ wlog = <<>>
            /\ rerr = "irc: line does not match pattern: " \o line

\* C34 witness: a line whose text starts with two colons has been received;
\* the event holds the text with one colon left.
C34_Witness ==
  /\ recvPc = "serialize" /\ received = << ":s!a@h 005 n ::x\r\n" >>
  /\ rmsg # <<>> /\ rmsg[1].Text = ":x" /\ rmsg[1].Sender = "s!a@h"

\* strings.Join
RECURSIVE Join(_, _)
Join(parts, sep) ==
  IF parts = <<>> THEN ""
  ELSE IF Len(parts) = 1 THEN parts[1]
  ELSE parts[1] \o sep \o Join(Tail(parts), sep)

\* the number of line feeds in a string
RECURSIVE LineFeeds(_)
LineFeeds(s) ==
  IF s = "" THEN 0
  ELSE (IF Ch(s, 1) = "\n" THEN 1 ELSE 0) + LineFeeds(From(s, 2))

\* C35: SendMessage makes one write, of one line: the command, then a space
\* and the receiver if and only if the receiver is not empty, then " :" and
\* the text if and only if the text is not empty, then a single line feed;
\* it returns nil when the write has succeeded and the error of the write
\* when it has failed.
C35_SendMessage ==
  recvPc = "written" =>
    LET m == cur[1]
        w == wlog[Len(wlog)]
        parts == << m.Command >>
                   \o (IF m.Receiver = "" THEN <<>> ELSE << m.Receiver >>)
                   \o (IF m.Text = "" THEN <<>> ELSE << ":" \o m.Text >>)
    IN /\ Len(wlog) = (IF rmsg[1].Command = "PING" THEN 2 ELSE 1)
       /\ w.line = Join(parts, " ") \o "\n"
       /\ LineFeeds(w.line) = 1 /\ Ch(w.line, Len(w.line)) = "\n"
       /\ Len(w.line) = Len(m.Command)
                          + (IF m.Receiver = "" THEN 0 ELSE 1 + Len(m.Receiver))
                          + (IF m.Text = "" THEN 0 ELSE 2 + Len(m.Text)) + 1
       /\ err = (IF w.res = "ok" THEN NoErr ELSE w.res)
       /\ peerClosed => err # NoErr

\* C35 witness: an event without receiver has been sent as `PING :12345`,
\* the write has succeeded.
C35_Witness ==
  /\ recvPc = "written" /\ received = << LnPing >> /\ err = NoErr
  /\ cur[1].Receiver = "" /\ wlog[Len(wlog)].line = "PING :" \o cur[1].Text \o "\n"

\* the lines returned by ReceiveMessage as addressed events
AddressedReceived == { i \in 1..Len(received) : Parsed[received[i]].kind = "line" }

\* C36: the liveness wait of Start ends well only through the consumer.
\* Traffic is recorded exactly when ReceiveMessage has returned an addressed
\* event: lines read or queued but not yet dequeued, and PING, ERROR and
\* malformed lines returned, record nothing.  The wait has not ended well
\* and no NICK is written before that.
C36_WaitNeedsConsumer ==
  /\ lastMsgTime <=> AddressedReceived # {}
  /\ (slept \/ supPc \in {"nick", "user"} \/ Writes(NickLine) # {} \/ Writes(UserLine) # {})
       => AddressedReceived # {}

\* C36 witness: a PING line was returned first and did not end the wait; NICK
\* was written after the addressed line that followed had been returned.
C36_Witness ==
  /\ Len(received) = 2 /\ Parsed[received[1]].kind = "ping"
  /\ AddressedReceived = {2}
  /\ \E q \in Writes(NickLine) : q > 1 /\ wlog[1].line = "PONG :tok\n"

\* the number of occurrences of a line in a sequence of lines
Count(l, lines) == Cardinality({ i \in 1..Len(lines) : lines[i] = l })

\* C37: with two callers of ReceiveMessage running side by side, every line
\* pollConn has enqueued is either still in the queue or has been returned
\* to exactly one of the callers: for every line, the occurrences returned
\* to the two callers and those still queued add up to the occurrences
\* enqueued, and as many lines have been returned as were taken off the queue.
C37_ExactlyOnce ==
  hostPc = "readers" =>
    LET enqueued == SubSeq(sent, 1, nread - Len(Held))
    IN /\ \A l \in PeerLines :
            Count(l, received) + Count(l, taken) + Count(l, rawMsgs)
              = Count(l, enqueued)
       /\ Len(received) + Len(taken) + Len(rawMsgs) = Len(enqueued)

\* C37 witness: every line the peer sent has been returned, some to one
\* caller and some to the other.
C37_Witness ==
  /\ hostPc = "readers" /\ Len(sent) = MaxLines /\ rawMsgs = <<>>
  /\ received # <<>> /\ taken # <<>>
  /\ Len(received) + Len(taken) = MaxLines

\* the dispatched events with command 005
ReadyEvents == { k \in DOMAIN dispatched : dispatched[k].Command = "005" }

\* when no JOIN write has failed and the action loop is between two events,
\* the JOIN lines written are one full round of the configured channels, in
\* order, for each 005 event dispatched
FullBatches ==
  (actPc = "select" /\ \A i \in DOMAIN JoinLog : JoinLog[i].res = "ok") =>
    /\ Len(JoinLog) = Cardinality(ReadyEvents) * Len(channels)
    /\ \A i \in DOMAIN JoinLog :
         JoinLog[i].line = "JOIN " \o channels[((i - 1) % Len(channels)) + 1] \o "\n"

\* C38: actionOnReady is not guarded against repetition: every dispatched
\* 005 event writes the JOIN line of every configured channel again, so that
\* k such events leave k full rounds of JOIN lines, and ready, once true,
\* stays true.
C38_ReadyRepeats == [][(ready => ready') /\ FullBatches']_vars

\* C38 witness: a second 005 event has been handled on a session that was
\* ready already, and the JOIN lines of the first round have been written a
\* second time.
C38_Witness ==
  /\ ready /\ actPc = "select" /\ Cardinality(ReadyEvents) = 2
  /\ Len(JoinLog) = 2 * Len(channels)
  /\ \A i \in 1..Len(channels) :
       /\ JoinLog[i].res = "ok" /\ JoinLog[i + Len(channels)].res = "ok"
       /\ JoinLog[i + Len(channels)].line = JoinLog[i].line

\* C39: after Start has returned the timeout error, nothing has been
\* released: the connection is open and not marked closed, Stop has not run,
\* pollConn has not ended, and it can still read a line the peer has sent
\* and enqueue the line it holds while the queue has room.
C39_TimeoutReleasesNothing ==
  startRet = ErrTimeout =>
    /\ conn = "open" /\ open /\ stopRet = "none"
    /\ framerPc \in {"read", "enq"}
    /\ Writes(QuitLine) = {}
    /\ (framerPc = "read" /\ nread < Len(sent) /\ ~readFailed)
         => ENABLED FramerRead
    /\ (framerPc = "enq" /\ Len(rawMsgs) < QueueCap) => ENABLED FramerEnqueue

\* C39 witness: Start has failed with the timeout, Handler.Start has
\* returned, and pollConn has since read the last line of the peer and is
\* about to enqueue it.
C39_Witness ==
  /\ startRet = ErrTimeout /\ handlerRet = ErrTimeout /\ actPc = "done"
  /\ framerPc = "enq" /\ nread = MaxLines /\ rawMsgs = <<>>
  /\ ENABLED FramerEnqueue

\* C40: a USER line is written only after a NICK write that succeeded; when
\* the NICK write has failed, no USER line is written and login has returned
\* the error of the NICK write.
C40_LoginStopsAtNick ==
  /\ \A u \in Writes(UserLine) :
       \E n \in Writes(NickLine) : n < u /\ wlog[n].res = "ok"
  /\ \A n \in Writes(NickLine) :
       wlog[n].res # "ok" =>
         /\ Writes(UserLine) = {}
         /\ supPc = "exit" /\ e = wlog[n].res

\* C40 witness: the NICK write failed on a connection reset by the peer,
\* login returned that error and Start has returned.
C40_Witness ==
  /\ Writes(UserLine) = {} /\ e = "broken" /\ hostPc = "running"
  /\ \E n \in Writes(NickLine) : wlog[n].res = "broken"

====
